---- MODULE Spec2Model ----
(***************************************************************************)
(* Paper-trading ledger of stock_predictor_backend/trading: TradingService *)
(* (services.py) over the Portfolio, Position, Transaction and Order       *)
(* tables (models.py).                                                     *)
(*                                                                         *)
(* Money is counted in cents (DecimalField decimal_places=2), quantities   *)
(* are integers (IntegerField).  The price oracle get_current_price is an  *)
(* input of every call that consults it; the value 0 stands for both None  *)
(* and Decimal(0), which the code treats alike ("if not current_price").   *)
(* Quotes and limit prices are whole numbers of cents, as the price fields *)
(* store them.                                                             *)
(* A table is a function whose domain is the set of rows that exist.       *)
(***************************************************************************)
EXTENDS Integers, Sequences, FiniteSets, TLC

\* ------------------------------------------------------------------ bounds
MaxQty == 1
\* shares per request of SpecLots
MaxLot == 2
MaxPrice == 2
MaxOrders == 2
MaxTxns == 3
MaxTime == 1
MaxCash == 6
\* calls per behaviour of Spec, SpecRaw, SpecViews, SpecConc and SpecSweep,
\* SpecBook, SpecPair, SpecTrade, SpecLots and SpecFirst
MaxCalls == 4
MaxRawCalls == 3
MaxViewCalls == 3
MaxConcCalls == 3
MaxBookCalls == 3
MaxPairCalls == 2
MaxTradeCalls == 3
MaxLotCalls == 2
MaxFirstCalls == 3
MaxLiveCalls == 3

\* settings.INITIAL_BALANCE, the default of Portfolio.cash_balance; the
\* settings module is not part of the sources, the value is scaled down
INITIAL_BALANCE == 4
\* expiration_days=30, the default of place_limit_order; the unit of time
\* is one such period
DEFAULT_EXPIRATION == 1

\* everybody who can send a request; Traders place trades and orders
Users == {"u1", "u2"}
Traders == {"u1"}
Tickers == {"AAPL"}
Sides == {"BUY", "SELL"}
\* quantities of well-formed requests (TradeSerializer.validate_quantity)
Quantities == 1..MaxQty
\* the quantities of SpecLots: lots of more than one share
Lots == 1..MaxLot
\* quantities the service accepts: it does not look at the sign
RawQuantities == (0 - 1)..MaxQty
\* what get_current_price can return; 0 is "no price" (None or zero)
OraclePrices == 0..MaxPrice
LimitPrices == 1..MaxPrice
\* tie-breaking of the store when a Decimal is cut to two places:
\* django.db.backends.utils.format_number quantizes half-even, PostgreSQL's
\* numeric(15,2) rounds half away from zero
RoundingModes == {"HALF_EVEN", "HALF_UP"}
\* concurrent request handlers
Workers == {"w1", "w2"}

VARIABLES
    now,            \* timezone.now(), in expiration periods
    portfolios,     \* user -> [cash_balance]
    positions,      \* <<user, ticker>> -> [quantity, average_buy_price]
    transactions,   \* sequence of Transaction rows, id = index
    orders,         \* sequence of Order rows, id = index
    performance,    \* user -> TradingPerformance row of the user's portfolio
    last,           \* the last call and what it returned
    ncalls,         \* how many calls were made
    workers,        \* worker -> the request it is handling (SpecConc)
    sweep,          \* the run of process_limit_orders in progress (SpecSweep)
    store           \* the portfolio and position tables row by row (SpecFirst)

vars == <<now, portfolios, positions, transactions, orders, performance,
          last, ncalls, workers, sweep, store>>

\* ----------------------------------------------------------------- helpers
Abs(x) == IF x < 0 THEN 0 - x ELSE x

Sign(x) == IF x < 0 THEN 0 - 1 ELSE 1

\* num/den cut to a whole number of cents by the store, den # 0
QuantizeDiv(num, den, mode) ==
    LET a == Abs(num)
        b == Abs(den)
        f == a \div b
        r == a - f * b
        s == Sign(num) * Sign(den)
        up == IF 2 * r > b THEN TRUE
              ELSE IF 2 * r < b THEN FALSE
              ELSE IF mode = "HALF_UP" THEN TRUE
              ELSE f % 2 = 1
    IN  s * (IF up THEN f + 1 ELSE f)

Remove(f, k) == [x \in (DOMAIN f) \ {k} |-> f[x]]

Put(f, k, v) == [x \in (DOMAIN f) \cup {k} |-> IF x = k THEN v ELSE f[x]]

\* the four tables as one value, threaded through a handler's statements
DB == [portfolios |-> portfolios, positions |-> positions,
       transactions |-> transactions, orders |-> orders]

\* a portfolio handed out with the starting balance at every call
PortfolioReset(pfs, user) ==
    Put(pfs, user, [cash_balance |-> INITIAL_BALANCE])

\* Portfolio.objects.get_or_create(user=user)
PortfolioGetOrCreate(pfs, user) ==
    IF user \in DOMAIN pfs THEN pfs
    ELSE Put(pfs, user, [cash_balance |-> INITIAL_BALANCE])

\* a Transaction stored with the default status of the model
NewTransactionPending(user, ticker, side, quantity, price, status, notes) ==
    [portfolio |-> user, ticker |-> ticker, transaction_type |-> side,
     quantity |-> quantity, price |-> price,
     total_amount |-> quantity * price,
     status |-> "PENDING",
     executed_at |-> 0 - 1,
     notes |-> notes]

\* Transaction(...) followed by Transaction.save(): total_amount is recomputed
NewTransaction(user, ticker, side, quantity, price, status, notes) ==
    [portfolio |-> user, ticker |-> ticker, transaction_type |-> side,
     quantity |-> quantity, price |-> price,
     total_amount |-> quantity * price,
     status |-> status,
     executed_at |-> IF status = "EXECUTED" THEN now ELSE 0 - 1,
     notes |-> notes]

\* the position update that leaves the average cost of a row without shares
\* as the row has it
IncreasePositionKeepingCost(pos, exists, add_qty, fill_price, mode) ==
    IF exists /\ pos.quantity > 0
    THEN LET total_value == pos.quantity * pos.average_buy_price
                            + fill_price * add_qty
             new_qty == pos.quantity + add_qty
         IN  IF new_qty = 0 THEN [raise |-> TRUE, pos |-> pos]
             ELSE [raise |-> FALSE,
                   pos |-> [quantity |-> new_qty,
                            average_buy_price |->
                                QuantizeDiv(total_value, new_qty, mode)]]
    ELSE [raise |-> FALSE,
          pos |-> [quantity |-> add_qty,
                   average_buy_price |-> pos.average_buy_price]]

\* the position update of an increasing trade; "raise" when the division fails
IncreasePosition(pos, exists, add_qty, fill_price, mode) ==
    IF exists /\ pos.quantity > 0
    THEN LET total_value == pos.quantity * pos.average_buy_price
                            + fill_price * add_qty
             new_qty == pos.quantity + add_qty
         IN  IF new_qty = 0 THEN [raise |-> TRUE, pos |-> pos]
             ELSE [raise |-> FALSE,
                   pos |-> [quantity |-> new_qty,
                            average_buy_price |->
                                QuantizeDiv(total_value, new_qty, mode)]]
    ELSE [raise |-> FALSE,
          pos |-> [quantity |-> add_qty, average_buy_price |-> fill_price]]

Result(db, success, message) ==
    [db |-> db, success |-> success, message |-> message]

\* ------------------------------------------------- execute_market_order
\* execute_market_order looking the position up by ticker alone, in any
\* portfolio
MarketOrderByTicker(db, user, ticker, side, quantity, current_price, mode) ==
    LET pfs == PortfolioGetOrCreate(db.portfolios, user)
        db1 == [db EXCEPT !.portfolios = pfs]
        cash == pfs[user].cash_balance
        total_amount == current_price * quantity
        held == {k \in DOMAIN db.positions : k[2] = ticker}
        key == IF held = {} THEN <<user, ticker>>
               ELSE CHOOSE k \in held : TRUE
        Failed(notes) ==
            [db1 EXCEPT !.transactions = Append(@,
                NewTransaction(user, ticker, side, quantity, current_price,
                               "FAILED", notes))]
        Executed(d) ==
            [d EXCEPT !.transactions = Append(@,
                NewTransaction(user, ticker, side, quantity, current_price,
                               "EXECUTED", ""))]
    IN
    IF current_price = 0 THEN Result(db1, FALSE, "no_price")
    ELSE IF side = "BUY" THEN
        IF cash < total_amount
        THEN Result(Failed("Insufficient funds"), FALSE, "insufficient_funds")
        ELSE
          LET db2 == [db1 EXCEPT !.portfolios[user].cash_balance = cash - total_amount]
              exists == key \in DOMAIN db2.positions
              pos0 == IF exists THEN db2.positions[key]
                      ELSE [quantity |-> 0, average_buy_price |-> 0]
              \* get_or_create has inserted the default row before the update
              db3 == [db2 EXCEPT !.positions = Put(@, key, pos0)]
              upd == IncreasePosition(pos0, TRUE, quantity, current_price, mode)
          IN  IF upd.raise THEN Result(db3, FALSE, "exception")
              ELSE Result(Executed([db3 EXCEPT !.positions = Put(@, key, upd.pos)]),
                          TRUE, "ok")
    ELSE
        IF key \notin DOMAIN db1.positions
        THEN Result(Failed("Position does not exist"), FALSE, "no_position")
        ELSE IF db1.positions[key].quantity < quantity
        THEN Result(Failed("Insufficient shares"), FALSE, "insufficient_shares")
        ELSE
          LET db2 == [db1 EXCEPT !.portfolios[user].cash_balance = cash + total_amount]
              new_qty == db2.positions[key].quantity - quantity
              db3 == IF new_qty = 0
                     THEN [db2 EXCEPT !.positions = Remove(@, key)]
                     ELSE [db2 EXCEPT !.positions[key].quantity = new_qty]
          IN  Result(Executed(db3), TRUE, "ok")

\* execute_market_order saving the debit before it checks the funds
MarketOrderDebitFirst(db, user, ticker, side, quantity, current_price, mode) ==
    LET pfs == PortfolioGetOrCreate(db.portfolios, user)
        cash == pfs[user].cash_balance
        total_amount == current_price * quantity
        db1 == [db EXCEPT !.portfolios = pfs]
        db2 == [db EXCEPT !.portfolios =
                   [pfs EXCEPT ![user].cash_balance = cash - total_amount]]
        key == <<user, ticker>>
        Failed(d, notes) ==
            [d EXCEPT !.transactions = Append(@,
                NewTransaction(user, ticker, side, quantity, current_price,
                               "FAILED", notes))]
        Executed(d) ==
            [d EXCEPT !.transactions = Append(@,
                NewTransaction(user, ticker, side, quantity, current_price,
                               "EXECUTED", ""))]
    IN
    IF current_price = 0 THEN Result(db1, FALSE, "no_price")
    ELSE IF side = "BUY" THEN
        IF cash < total_amount
        THEN Result(Failed(db2, "Insufficient funds"), FALSE, "insufficient_funds")
        ELSE
          LET exists == key \in DOMAIN db2.positions
              pos0 == IF exists THEN db2.positions[key]
                      ELSE [quantity |-> 0, average_buy_price |-> 0]
              db3 == [db2 EXCEPT !.positions = Put(@, key, pos0)]
              upd == IncreasePosition(pos0, TRUE, quantity, current_price, mode)
          IN  IF upd.raise THEN Result(db3, FALSE, "exception")
              ELSE Result(Executed([db3 EXCEPT !.positions = Put(@, key, upd.pos)]),
                          TRUE, "ok")
    ELSE
        IF key \notin DOMAIN db1.positions
        THEN Result(Failed(db1, "Position does not exist"), FALSE, "no_position")
        ELSE IF db1.positions[key].quantity < quantity
        THEN Result(Failed(db1, "Insufficient shares"), FALSE, "insufficient_shares")
        ELSE
          LET db4 == [db1 EXCEPT !.portfolios[user].cash_balance = cash + total_amount]
              new_qty == db4.positions[key].quantity - quantity
              db5 == IF new_qty = 0
                     THEN [db4 EXCEPT !.positions = Remove(@, key)]
                     ELSE [db4 EXCEPT !.positions[key].quantity = new_qty]
          IN  Result(Executed(db5), TRUE, "ok")

MarketOrder(db, user, ticker, side, quantity, current_price, mode) ==
    LET pfs == PortfolioGetOrCreate(db.portfolios, user)
        db1 == [db EXCEPT !.portfolios = pfs]
        cash == pfs[user].cash_balance
        total_amount == current_price * quantity
        key == <<user, ticker>>
        Failed(notes) ==
            [db1 EXCEPT !.transactions = Append(@,
                NewTransaction(user, ticker, side, quantity, current_price,
                               "FAILED", notes))]
        Executed(d) ==
            [d EXCEPT !.transactions = Append(@,
                NewTransaction(user, ticker, side, quantity, current_price,
                               "EXECUTED", ""))]
    IN
    IF current_price = 0 THEN Result(db1, FALSE, "no_price")
    ELSE IF side = "BUY" THEN
        IF cash < total_amount
        THEN Result(Failed("Insufficient funds"), FALSE, "insufficient_funds")
        ELSE
          LET db2 == [db1 EXCEPT !.portfolios[user].cash_balance = cash - total_amount]
              exists == key \in DOMAIN db2.positions
              pos0 == IF exists THEN db2.positions[key]
                      ELSE [quantity |-> 0, average_buy_price |-> 0]
              \* get_or_create has inserted the default row before the update
              db3 == [db2 EXCEPT !.positions = Put(@, key, pos0)]
              upd == IncreasePosition(pos0, TRUE, quantity, current_price, mode)
          IN  IF upd.raise THEN Result(db3, FALSE, "exception")
              ELSE Result(Executed([db3 EXCEPT !.positions = Put(@, key, upd.pos)]),
                          TRUE, "ok")
    ELSE
        IF key \notin DOMAIN db1.positions
        THEN Result(Failed("Position does not exist"), FALSE, "no_position")
        ELSE IF db1.positions[key].quantity < quantity
        THEN Result(Failed("Insufficient shares"), FALSE, "insufficient_shares")
        ELSE
          LET db2 == [db1 EXCEPT !.portfolios[user].cash_balance = cash + total_amount]
              new_qty == db2.positions[key].quantity - quantity
              db3 == IF new_qty = 0
                     THEN [db2 EXCEPT !.positions = Remove(@, key)]
                     ELSE [db2 EXCEPT !.positions[key].quantity = new_qty]
          IN  Result(Executed(db3), TRUE, "ok")

\* ---------------------------------------------------- place_limit_order
\* place_limit_order reserving at the live quote instead of the limit price
PlaceAtQuote(db, user, ticker, side, quantity, limit_price, expiration_days, current_price) ==
    LET pfs == PortfolioGetOrCreate(db.portfolios, user)
        db1 == [db EXCEPT !.portfolios = pfs]
        cash == pfs[user].cash_balance
        total_amount == current_price * quantity
        key == <<user, ticker>>
        Created(d) ==
            [d EXCEPT !.orders = Append(@,
                [portfolio |-> user, ticker |-> ticker, side |-> side,
                 order_type |-> "LIMIT", quantity |-> quantity,
                 limit_price |-> limit_price, status |-> "OPEN",
                 transaction |-> 0,
                 expiration_date |-> now + expiration_days])]
    IN
    IF current_price = 0 THEN Result(db1, FALSE, "no_price")
    ELSE IF side = "BUY" THEN
        IF cash < total_amount
        THEN Result(db1, FALSE, "insufficient_funds")
        ELSE Result(Created([db1 EXCEPT !.portfolios[user].cash_balance =
                                            cash - total_amount]),
                    TRUE, "ok")
    ELSE
        IF key \notin DOMAIN db1.positions
        THEN Result(db1, FALSE, "no_position")
        ELSE IF db1.positions[key].quantity < quantity
        THEN Result(db1, FALSE, "insufficient_shares")
        ELSE Result(Created(db1), TRUE, "ok")

\* place_limit_order checking the funds of a BUY against the live quote
PlaceCheckingQuote(db, user, ticker, side, quantity, limit_price, expiration_days, current_price) ==
    LET pfs == PortfolioGetOrCreate(db.portfolios, user)
        db1 == [db EXCEPT !.portfolios = pfs]
        cash == pfs[user].cash_balance
        total_amount == limit_price * quantity
        key == <<user, ticker>>
        Created(d) ==
            [d EXCEPT !.orders = Append(@,
                [portfolio |-> user, ticker |-> ticker, side |-> side,
                 order_type |-> "LIMIT", quantity |-> quantity,
                 limit_price |-> limit_price, status |-> "OPEN",
                 transaction |-> 0,
                 expiration_date |-> now + expiration_days])]
    IN
    IF current_price = 0 THEN Result(db1, FALSE, "no_price")
    ELSE IF side = "BUY" THEN
        IF cash < current_price * quantity
        THEN Result(db1, FALSE, "insufficient_funds")
        ELSE Result(Created([db1 EXCEPT !.portfolios[user].cash_balance =
                                            cash - total_amount]),
                    TRUE, "ok")
    ELSE
        IF key \notin DOMAIN db1.positions
        THEN Result(db1, FALSE, "no_position")
        ELSE IF db1.positions[key].quantity < quantity
        THEN Result(db1, FALSE, "insufficient_shares")
        ELSE Result(Created(db1), TRUE, "ok")

PlaceLimitOrder(db, user, ticker, side, quantity, limit_price, expiration_days, current_price) ==
    LET pfs == PortfolioGetOrCreate(db.portfolios, user)
        db1 == [db EXCEPT !.portfolios = pfs]
        cash == pfs[user].cash_balance
        total_amount == limit_price * quantity
        key == <<user, ticker>>
        Created(d) ==
            [d EXCEPT !.orders = Append(@,
                [portfolio |-> user, ticker |-> ticker, side |-> side,
                 order_type |-> "LIMIT", quantity |-> quantity,
                 limit_price |-> limit_price, status |-> "OPEN",
                 transaction |-> 0,
                 expiration_date |-> now + expiration_days])]
    IN
    IF current_price = 0 THEN Result(db1, FALSE, "no_price")
    ELSE IF side = "BUY" THEN
        IF cash < total_amount
        THEN Result(db1, FALSE, "insufficient_funds")
        ELSE Result(Created([db1 EXCEPT !.portfolios[user].cash_balance =
                                            cash - total_amount]),
                    TRUE, "ok")
    ELSE
        IF key \notin DOMAIN db1.positions
        THEN Result(db1, FALSE, "no_position")
        ELSE IF db1.positions[key].quantity < quantity
        THEN Result(db1, FALSE, "insufficient_shares")
        ELSE Result(Created(db1), TRUE, "ok")

\* --------------------------------------------------- cancel_limit_order
\* cancel_limit_order without the refund of lines 256-260
CancelWithoutRefund(db, order_id, user) ==
    IF order_id \notin 1..Len(db.orders)
    THEN Result(db, FALSE, "not_found")
    ELSE IF db.orders[order_id].portfolio # user
    THEN Result(db, FALSE, "permission")
    ELSE IF db.orders[order_id].status # "OPEN"
    THEN Result(db, FALSE, "not_open")
    ELSE Result([db EXCEPT !.orders[order_id].status = "CANCELLED"], TRUE, "ok")

\* cancel_limit_order without the ownership check of lines 243-247
CancelByAnyone(db, order_id, user) ==
    IF order_id \notin 1..Len(db.orders)
    THEN Result(db, FALSE, "not_found")
    ELSE
      LET order == db.orders[order_id]
          owner == order.portfolio
          total_amount == order.limit_price * order.quantity
          db1 == IF order.side = "BUY"
                 THEN [db EXCEPT !.portfolios[owner].cash_balance = @ + total_amount]
                 ELSE db
      IN  IF order.status # "OPEN" THEN Result(db, FALSE, "not_open")
          ELSE Result([db1 EXCEPT !.orders[order_id].status = "CANCELLED"],
                      TRUE, "ok")

CancelLimitOrder(db, order_id, user) ==
    IF order_id \notin 1..Len(db.orders)
    THEN Result(db, FALSE, "not_found")
    ELSE
      LET order == db.orders[order_id]
          owner == order.portfolio
          total_amount == order.limit_price * order.quantity
          db1 == IF order.side = "BUY"
                 THEN [db EXCEPT !.portfolios[owner].cash_balance = @ + total_amount]
                 ELSE db
      IN  IF owner # user THEN Result(db, FALSE, "permission")
          ELSE IF order.status # "OPEN" THEN Result(db, FALSE, "not_open")
          ELSE Result([db1 EXCEPT !.orders[order_id].status = "CANCELLED"],
                      TRUE, "ok")

\* -------------------------------------------------- execute_limit_order
\* execute_limit_order carrying the remaining shares of a SELL at the fill
\* price
LimitFillRepricing(db, order_id, order, cash0, current_price, mode) ==
    LET user == order.portfolio
        key == <<user, order.ticker>>
        Executed(d) ==
            LET d1 == [d EXCEPT !.transactions = Append(@,
                          NewTransaction(user, order.ticker, order.side,
                                         order.quantity, current_price,
                                         "EXECUTED", ""))]
            IN  [d1 EXCEPT !.orders[order_id] =
                    [order EXCEPT !.transaction = Len(d1.transactions),
                                  !.status = "FILLED"]]
    IN
    IF order.side = "BUY" THEN
        LET refund_amount == (order.limit_price - current_price) * order.quantity
            db1 == IF refund_amount > 0
                   THEN [db EXCEPT !.portfolios[user].cash_balance =
                                       cash0 + refund_amount]
                   ELSE db
            exists == key \in DOMAIN db1.positions
            pos0 == IF exists THEN db1.positions[key]
                    ELSE [quantity |-> 0, average_buy_price |-> 0]
            db2 == [db1 EXCEPT !.positions = Put(@, key, pos0)]
            upd == IncreasePosition(pos0, TRUE, order.quantity, current_price, mode)
        IN  IF upd.raise THEN Result(db2, FALSE, "exception")
            ELSE Result(Executed([db2 EXCEPT !.positions = Put(@, key, upd.pos)]),
                        TRUE, "ok")
    ELSE
        LET db1 == [db EXCEPT !.portfolios[user].cash_balance =
                                  cash0 + current_price * order.quantity]
        IN  IF key \notin DOMAIN db1.positions
            THEN Result(db1, FALSE, "exception")
            ELSE
              LET new_qty == db1.positions[key].quantity - order.quantity
                  db2 == IF new_qty = 0
                         THEN [db1 EXCEPT !.positions = Remove(@, key)]
                         ELSE [db1 EXCEPT !.positions[key] =
                                   [quantity |-> new_qty,
                                    average_buy_price |-> current_price]]
              IN  Result(Executed(db2), TRUE, "ok")

\* order and cash0 are the Order row and the cash balance of its Portfolio
\* as the caller's query loaded them (select_related builds one Portfolio
\* object per Order row)
LimitFill(db, order_id, order, cash0, current_price, mode) ==
    LET user == order.portfolio
        key == <<user, order.ticker>>
        Executed(d) ==
            LET d1 == [d EXCEPT !.transactions = Append(@,
                          NewTransaction(user, order.ticker, order.side,
                                         order.quantity, current_price,
                                         "EXECUTED", ""))]
            IN  [d1 EXCEPT !.orders[order_id] =
                    [order EXCEPT !.transaction = Len(d1.transactions),
                                  !.status = "FILLED"]]
    IN
    IF order.side = "BUY" THEN
        LET refund_amount == (order.limit_price - current_price) * order.quantity
            db1 == IF refund_amount > 0
                   THEN [db EXCEPT !.portfolios[user].cash_balance =
                                       cash0 + refund_amount]
                   ELSE db
            exists == key \in DOMAIN db1.positions
            pos0 == IF exists THEN db1.positions[key]
                    ELSE [quantity |-> 0, average_buy_price |-> 0]
            db2 == [db1 EXCEPT !.positions = Put(@, key, pos0)]
            upd == IncreasePosition(pos0, TRUE, order.quantity, current_price, mode)
        IN  IF upd.raise THEN Result(db2, FALSE, "exception")
            ELSE Result(Executed([db2 EXCEPT !.positions = Put(@, key, upd.pos)]),
                        TRUE, "ok")
    ELSE
        LET db1 == [db EXCEPT !.portfolios[user].cash_balance =
                                  cash0 + current_price * order.quantity]
        IN  IF key \notin DOMAIN db1.positions
            THEN Result(db1, FALSE, "exception")
            ELSE
              LET new_qty == db1.positions[key].quantity - order.quantity
                  db2 == IF new_qty = 0
                         THEN [db1 EXCEPT !.positions = Remove(@, key)]
                         ELSE [db1 EXCEPT !.positions[key].quantity = new_qty]
              IN  Result(Executed(db2), TRUE, "ok")

\* -------------------------------------------------- process_limit_orders
\* the query without its expiration_date__gt filter
OpenOrdersOfAnyDate(db) ==
    {i \in 1..Len(db.orders) : db.orders[i].status = "OPEN"}

\* the rows of the query Order.objects.filter(status=OPEN, expiration_date__gt=now)
OpenOrders(db) ==
    {i \in 1..Len(db.orders) :
        db.orders[i].status = "OPEN" /\ db.orders[i].expiration_date > now}

\* the query has no order_by: the rows come in an order the store chooses
Orderings(S) ==
    {f \in [1..Cardinality(S) -> S] :
        \A i, j \in 1..Cardinality(S) : f[i] = f[j] => i = j}

CanExecute(order, current_price) ==
    /\ current_price # 0
    /\ \/ order.side = "BUY" /\ current_price <= order.limit_price
       \/ order.side = "SELL" /\ current_price >= order.limit_price

RECURSIVE ProcessLoop(_, _, _, _, _)
ProcessLoop(db, snap, todo, prices, mode) ==
    IF todo = <<>> THEN db
    ELSE
      LET id == Head(todo)
          order == snap.orders[id]
          cash0 == snap.portfolios[order.portfolio].cash_balance
          db1 == IF CanExecute(order, prices[id])
                 THEN LimitFill(db, id, order, cash0, prices[id], mode).db
                 ELSE db
      IN  ProcessLoop(db1, snap, Tail(todo), prices, mode)

\* the UPDATE of expire_old_orders with expiration_date__lt
ExpireUpdateBeforeNow(db) ==
    [db EXCEPT !.orders =
        [i \in 1..Len(db.orders) |->
            IF db.orders[i].status = "OPEN" /\ db.orders[i].expiration_date < now
            THEN [db.orders[i] EXCEPT !.status = "EXPIRED"]
            ELSE db.orders[i]]]

\* ---------------------------------------------------- expire_old_orders
ExpireUpdate(db) ==
    [db EXCEPT !.orders =
        [i \in 1..Len(db.orders) |->
            IF db.orders[i].status = "OPEN" /\ db.orders[i].expiration_date <= now
            THEN [db.orders[i] EXCEPT !.status = "EXPIRED"]
            ELSE db.orders[i]]]

\* the rows of the query Order.objects.filter(status=EXPIRED, side=BUY)
ExpiredBuyOrders(db) ==
    {i \in 1..Len(db.orders) :
        db.orders[i].status = "EXPIRED" /\ db.orders[i].side = "BUY"}

RECURSIVE RefundLoop(_, _, _)
RefundLoop(db, snap, todo) ==
    IF todo = <<>> THEN db
    ELSE
      LET order == snap.orders[Head(todo)]
          cash0 == snap.portfolios[order.portfolio].cash_balance
          total_amount == order.limit_price * order.quantity
      IN  RefundLoop([db EXCEPT !.portfolios[order.portfolio].cash_balance =
                                    cash0 + total_amount],
                     snap, Tail(todo))

\* ---------------------------------------------------------------- actions
NoCall == [op |-> "none", user |-> "", order_id |-> 0,
           success |-> FALSE, message |-> "", realized_pnl |-> 0]

IdleWorker == [pc |-> "idle", user |-> "", ticker |-> "", side |-> "",
               quantity |-> 0, price |-> 0, cash |-> 0, created |-> FALSE,
               inserted |-> FALSE,
               pos |-> [quantity |-> 0, average_buy_price |-> 0],
               success |-> FALSE, message |-> "",
               cash0 |-> 0, held0 |-> 0, overlap |-> FALSE,
               order_id |-> 0, order |-> <<>>, todo |-> <<>>, snap |-> <<>>]

\* no run of process_limit_orders is in progress
IdleSweep == [pc |-> "idle", snap |-> <<>>, rows |-> <<>>, todo |-> <<>>,
              price |-> 0, cash |-> 0, holds |-> FALSE, inserted |-> FALSE,
              pos |-> [quantity |-> 0, average_buy_price |-> 0],
              pcs0 |-> <<>>, pcs1 |-> <<>>]

\* both tables without a row
EmptyStore == [portfolio |-> {}, position |-> {}]

Commit(db) ==
    /\ portfolios' = db.portfolios
    /\ positions' = db.positions
    /\ transactions' = db.transactions
    /\ orders' = db.orders

WithinBounds(db, cap) ==
    /\ ncalls < cap
    /\ ncalls' = ncalls + 1
    /\ Len(db.transactions) <= MaxTxns
    /\ Len(db.orders) <= MaxOrders
    /\ \A u \in DOMAIN db.portfolios : db.portfolios[u].cash_balance <= MaxCash

CashOf(pfs, user) ==
    IF user \in DOMAIN pfs THEN pfs[user].cash_balance ELSE INITIAL_BALANCE

Held(pos, user, ticker) ==
    IF <<user, ticker>> \in DOMAIN pos THEN pos[<<user, ticker>>].quantity ELSE 0

execute_market_order(cap, user, ticker, side, quantity, current_price, mode) ==
    LET r == MarketOrder(DB, user, ticker, side, quantity, current_price, mode)
    IN  /\ WithinBounds(r.db, cap)
        /\ Commit(r.db)
        /\ last' = [NoCall EXCEPT !.op = "execute_market_order", !.user = user,
                       !.success = r.success, !.message = r.message]
        /\ UNCHANGED <<now, performance, workers, sweep, store>>

place_limit_order(cap, user, ticker, side, quantity, limit_price, expiration_days, current_price) ==
    LET r == PlaceLimitOrder(DB, user, ticker, side, quantity, limit_price,
                             expiration_days, current_price)
    IN  /\ WithinBounds(r.db, cap)
        /\ Commit(r.db)
        /\ last' = [NoCall EXCEPT !.op = "place_limit_order", !.user = user,
                       !.order_id = IF r.success THEN Len(r.db.orders) ELSE 0,
                       !.success = r.success, !.message = r.message]
        /\ UNCHANGED <<now, performance, workers, sweep, store>>

cancel_limit_order(cap, order_id, user) ==
    LET r == CancelLimitOrder(DB, order_id, user)
    IN  /\ WithinBounds(r.db, cap)
        /\ Commit(r.db)
        /\ last' = [NoCall EXCEPT !.op = "cancel_limit_order", !.user = user,
                       !.order_id = order_id,
                       !.success = r.success, !.message = r.message]
        /\ UNCHANGED <<now, performance, workers, sweep, store>>

process_limit_orders(cap, todo, prices, mode) ==
    LET db == ProcessLoop(DB, DB, todo, prices, mode)
    IN  /\ WithinBounds(db, cap)
        /\ Commit(db)
        /\ last' = [NoCall EXCEPT !.op = "process_limit_orders", !.success = TRUE]
        /\ UNCHANGED <<now, performance, workers, sweep, store>>

expire_old_orders(cap, todo) ==
    LET db1 == ExpireUpdate(DB)
        db2 == RefundLoop(db1, db1, todo)
    IN  /\ WithinBounds(db2, cap)
        /\ Commit(db2)
        /\ last' = [NoCall EXCEPT !.op = "expire_old_orders", !.success = TRUE]
        /\ UNCHANGED <<now, performance, workers, sweep, store>>

\* time passes between calls
Tick ==
    /\ now < MaxTime
    /\ now' = now + 1
    /\ UNCHANGED <<portfolios, positions, transactions, orders, performance,
                   last, ncalls, workers, sweep, store>>

Init ==
    /\ now = 0
    /\ portfolios = <<>>
    /\ positions = <<>>
    /\ transactions = <<>>
    /\ orders = <<>>
    /\ performance = <<>>
    /\ last = NoCall
    /\ ncalls = 0
    /\ workers = [w \in Workers |-> IdleWorker]
    /\ sweep = IdleSweep
    /\ store = EmptyStore

MarketCall(Q, cap) ==
    \E u \in Traders, t \in Tickers, s \in Sides, q \in Q,
       p \in OraclePrices, m \in RoundingModes :
        execute_market_order(cap, u, t, s, q, p, m)

PlaceCall(Q, cap) ==
    \E u \in Traders, t \in Tickers, s \in Sides, q \in Q,
       l \in LimitPrices, p \in OraclePrices :
        place_limit_order(cap, u, t, s, q, l, DEFAULT_EXPIRATION, p)

CancelCall(cap) ==
    \E id \in 1..MaxOrders, u \in Users : cancel_limit_order(cap, id, u)

ProcessCall(cap) ==
    \E todo \in Orderings(OpenOrders(DB)),
       prices \in [OpenOrders(DB) -> OraclePrices], m \in RoundingModes :
        process_limit_orders(cap, todo, prices, m)

ExpireCall(cap) ==
    \E todo \in Orderings(ExpiredBuyOrders(ExpireUpdate(DB))) :
        expire_old_orders(cap, todo)

\* the service driven by well-formed requests
Next ==
    \/ MarketCall(Quantities, MaxCalls)
    \/ PlaceCall(Quantities, MaxCalls)
    \/ CancelCall(MaxCalls)
    \/ ProcessCall(MaxCalls)
    \/ ExpireCall(MaxCalls)
    \/ Tick

Spec == Init /\ [][Next]_vars

\* the service driven by any caller: quantities of either sign
NextRaw ==
    \/ MarketCall(RawQuantities, MaxRawCalls)
    \/ PlaceCall(RawQuantities, MaxRawCalls)
    \/ CancelCall(MaxRawCalls)
    \/ ProcessCall(MaxRawCalls)
    \/ ExpireCall(MaxRawCalls)
    \/ Tick

SpecRaw == Init /\ [][NextRaw]_vars

\* the limit order book alone: placements, cancellations and the two sweeps
NextBook ==
    \/ PlaceCall(Quantities, MaxBookCalls)
    \/ CancelCall(MaxBookCalls)
    \/ ProcessCall(MaxBookCalls)
    \/ ExpireCall(MaxBookCalls)
    \/ Tick

SpecBook == Init /\ [][NextBook]_vars

\* two portfolios on one store: every user trades and places orders
PairMarketCall ==
    \E u \in Users, t \in Tickers, s \in Sides, q \in Quantities,
       p \in OraclePrices, m \in RoundingModes :
        execute_market_order(MaxPairCalls, u, t, s, q, p, m)

PairPlaceCall ==
    \E u \in Users, t \in Tickers, s \in Sides, q \in Quantities,
       l \in LimitPrices, p \in OraclePrices :
        place_limit_order(MaxPairCalls, u, t, s, q, l, DEFAULT_EXPIRATION, p)

NextPair ==
    \/ PairMarketCall
    \/ PairPlaceCall
    \/ CancelCall(MaxPairCalls)
    \/ ProcessCall(MaxPairCalls)

SpecPair == Init /\ [][NextPair]_vars

\* one portfolio trading at the market and through the book: market orders,
\* placements and the fill sweep
NextTrade ==
    \/ MarketCall(Quantities, MaxTradeCalls)
    \/ PlaceCall(Quantities, MaxTradeCalls)
    \/ ProcessCall(MaxTradeCalls)

SpecTrade == Init /\ [][NextTrade]_vars

\* one portfolio trading lots of several shares at the market, with orders on
\* the book
NextLots ==
    \/ MarketCall(Lots, MaxLotCalls)
    \/ PlaceCall(Lots, MaxLotCalls)

SpecLots == Init /\ [][NextLots]_vars

\* ------------------------------------- execute_market_order, concurrently
\* Two request handlers run execute_market_order at once.  The store is
\* Django's default: READ COMMITTED, a statement sees what is committed when
\* it runs, a row written by a transaction in progress is locked until that
\* transaction commits, and nothing else is locked (the code has no
\* select_for_update).  What a handler has written and not committed is in
\* its worker record.  cash0, held0 and overlap are history: the balance and
\* the holding the request started from, and whether another request was in
\* progress at any time during this one.

\* worker w has written the Portfolio row of its user and not yet committed
HoldsPortfolio(w) ==
    \/ workers[w].pc \in {"debited", "positioned", "refunded"}
    \/ workers[w].pc \in {"begun", "checked"} /\ workers[w].created

InFlight(w) == workers[w].pc \in {"begun", "checked", "debited", "positioned"}

\* the Order row the sweep is executing, as its query loaded it
SweepOrder == sweep.snap.orders[Head(sweep.todo)]

\* the Portfolio row of the user is locked by somebody other than worker w
Blocked(w, user) ==
    \/ \E o \in Workers \ {w} : HoldsPortfolio(o) /\ workers[o].user = user
    \/ sweep.holds /\ SweepOrder.portfolio = user

\* somebody other than worker w has inserted the Position row of the key and
\* not yet committed: an insert of the same key waits on the unique index
PosBlocked(w, key) ==
    \/ \E o \in Workers \ {w} :
          /\ workers[o].pc = "positioned" /\ workers[o].inserted
          /\ <<workers[o].user, workers[o].ticker>> = key
    \/ /\ sweep.pc = "positioned" /\ sweep.inserted
       /\ <<SweepOrder.portfolio, SweepOrder.ticker>> = key

Finish(w, success, message) ==
    workers' = [workers EXCEPT ![w] = [@ EXCEPT !.pc = "done",
                   !.success = success, !.message = message]]

\* lines 40-48: get_or_create of the portfolio, the price lookup
MktBegin(w, user, ticker, side, quantity, current_price) ==
    /\ workers[w].pc = "idle"
    /\ ncalls < MaxConcCalls
    /\ ncalls' = ncalls + 1
    /\ user \in DOMAIN portfolios \/ ~Blocked(w, user)
    /\ IF current_price = 0
       THEN /\ portfolios' = PortfolioGetOrCreate(portfolios, user)
            /\ workers' = [workers EXCEPT ![w] = [IdleWorker EXCEPT
                   !.pc = "done", !.user = user, !.ticker = ticker,
                   !.side = side, !.quantity = quantity,
                   !.message = "no_price"]]
       ELSE /\ workers' = [x \in Workers |->
                   IF x = w
                   THEN [IdleWorker EXCEPT
                           !.pc = "begun", !.user = user, !.ticker = ticker,
                           !.side = side, !.quantity = quantity,
                           !.price = current_price,
                           !.cash = CashOf(portfolios, user),
                           !.created = user \notin DOMAIN portfolios,
                           !.cash0 = CashOf(portfolios, user),
                           !.held0 = Held(positions, user, ticker),
                           !.overlap = \E o \in Workers \ {w} : InFlight(o)]
                   ELSE IF InFlight(x)
                   THEN [workers[x] EXCEPT !.overlap = TRUE]
                   ELSE workers[x]]
            /\ UNCHANGED portfolios
    /\ UNCHANGED <<now, positions, transactions, orders, performance, last,
                   sweep, store>>

\* lines 64-74 and 105-124: the checks, on what the handler has read
MktCheck(w) ==
    LET me == workers[w]
        key == <<me.user, me.ticker>>
        total_amount == me.price * me.quantity
        Fail(notes, message) ==
            /\ transactions' = Append(transactions,
                   NewTransaction(me.user, me.ticker, me.side, me.quantity,
                                  me.price, "FAILED", notes))
            /\ portfolios' = IF me.created
                             THEN Put(portfolios, me.user, [cash_balance |-> me.cash])
                             ELSE portfolios
            /\ Finish(w, FALSE, message)
        Pass(pos) ==
            /\ workers' = [workers EXCEPT ![w] = [@ EXCEPT !.pc = "checked",
                                                           !.pos = pos]]
            /\ UNCHANGED <<portfolios, transactions>>
    IN  /\ me.pc = "begun"
        /\ Len(transactions) < MaxTxns
        /\ IF me.side = "BUY"
           THEN IF me.cash < total_amount
                THEN Fail("Insufficient funds", "insufficient_funds")
                ELSE Pass(me.pos)
           ELSE IF key \notin DOMAIN positions
                THEN Fail("Position does not exist", "no_position")
                ELSE IF positions[key].quantity < me.quantity
                THEN Fail("Insufficient shares", "insufficient_shares")
                ELSE Pass(positions[key])
        /\ UNCHANGED <<now, positions, orders, performance, last, ncalls, sweep, store>>

\* lines 76-78 and 126-128: portfolio.save() writes the balance the handler
\* computed from the balance it read; the UPDATE waits for the row lock
MktDebit(w) ==
    LET me == workers[w]
        total_amount == me.price * me.quantity
    IN  /\ me.pc = "checked"
        /\ ~Blocked(w, me.user)
        /\ workers' = [workers EXCEPT ![w] = [@ EXCEPT !.pc = "debited",
               !.cash = IF me.side = "BUY" THEN me.cash - total_amount
                        ELSE me.cash + total_amount]]
        /\ UNCHANGED <<now, portfolios, positions, transactions, orders,
                       performance, last, ncalls, sweep, store>>

\* lines 80-89: get_or_create of the Position of a BUY; a row that is missing
\* is inserted, and the insert is not committed yet
MktPosition(w) ==
    LET me == workers[w]
        key == <<me.user, me.ticker>>
        exists == key \in DOMAIN positions
    IN  /\ me.pc = "debited" /\ me.side = "BUY"
        /\ exists \/ ~PosBlocked(w, key)
        /\ workers' = [workers EXCEPT ![w] = [@ EXCEPT !.pc = "positioned",
               !.inserted = ~exists,
               !.pos = IF exists THEN positions[key]
                       ELSE [quantity |-> 0, average_buy_price |-> 0]]]
        /\ UNCHANGED <<now, portfolios, positions, transactions, orders,
                       performance, last, ncalls, sweep, store>>

\* lines 91-102 and 130-138: the Position is written from the row the handler
\* read; then the Transaction of lines 140-143 and the commit at the end of
\* the atomic block
MktCommit(w, mode) ==
    LET me == workers[w]
        key == <<me.user, me.ticker>>
        upd == IncreasePosition(me.pos, TRUE, me.quantity, me.price, mode)
        new_qty == me.pos.quantity - me.quantity
        executed == Append(transactions,
                       NewTransaction(me.user, me.ticker, me.side, me.quantity,
                                      me.price, "EXECUTED", ""))
    IN  /\ me.pc = IF me.side = "BUY" THEN "positioned" ELSE "debited"
        /\ Len(transactions) < MaxTxns
        /\ portfolios' = Put(portfolios, me.user, [cash_balance |-> me.cash])
        /\ IF me.side = "BUY"
           THEN IF upd.raise
                THEN /\ positions' = IF me.inserted
                                     THEN Put(positions, key, me.pos)
                                     ELSE positions
                     /\ UNCHANGED transactions
                     /\ Finish(w, FALSE, "exception")
                ELSE /\ positions' = Put(positions, key, upd.pos)
                     /\ transactions' = executed
                     /\ Finish(w, TRUE, "ok")
           ELSE /\ positions' = IF new_qty = 0 THEN Remove(positions, key)
                                ELSE Put(positions, key,
                                         [me.pos EXCEPT !.quantity = new_qty])
                /\ transactions' = executed
                /\ Finish(w, TRUE, "ok")
        /\ UNCHANGED <<now, orders, performance, last, ncalls, sweep, store>>

\* the response is sent, the handler takes the next request
MktReturn(w) ==
    /\ workers[w].pc = "done"
    /\ workers' = [workers EXCEPT ![w] = IdleWorker]
    /\ UNCHANGED <<now, portfolios, positions, transactions, orders,
                   performance, last, ncalls, sweep, store>>

NextConc ==
    \/ \E w \in Workers, u \in Traders, t \in Tickers, s \in Sides,
          q \in Quantities, p \in OraclePrices : MktBegin(w, u, t, s, q, p)
    \/ \E w \in Workers : MktCheck(w)
    \/ \E w \in Workers : MktDebit(w)
    \/ \E w \in Workers : MktPosition(w)
    \/ \E w \in Workers, m \in RoundingModes : MktCommit(w, m)
    \/ \E w \in Workers : MktReturn(w)

SpecConc == Init /\ [][NextConc]_vars

\* ------------------------- process_limit_orders beside a market order
\* One process runs process_limit_orders while a request handler runs
\* execute_market_order, on the same store.  The sweep's query is evaluated
\* once (SweepBegin); each execute_limit_order is an atomic block of its own
\* that works on the Order and Portfolio objects the query built.  What the
\* block has written and not committed is in sweep (cash, and inserted for a
\* Position row).  rows, pcs0 and pcs1 are history: the rows the query
\* returned, and where each handler was when the sweep began and when it
\* last finished with a row.
Sweeper == "sweeper"

SweepWorkers == {"w1"}

Quiet == sweep.pc = "idle" /\ \A w \in Workers : workers[w].pc = "idle"

\* the sweep goes on to the next row of its query
Advance ==
    [sweep EXCEPT !.todo = Tail(@),
                  !.pc = IF Tail(sweep.todo) = <<>> THEN "done" ELSE "loop",
                  !.price = 0, !.cash = 0, !.holds = FALSE, !.inserted = FALSE,
                  !.pos = [quantity |-> 0, average_buy_price |-> 0],
                  !.pcs1 = [w \in Workers |-> workers[w].pc]]

\* lines 287-291: the query, with the Portfolio of every row
SweepBegin(todo) ==
    /\ sweep.pc = "idle"
    /\ ncalls < MaxConcCalls
    /\ ncalls' = ncalls + 1
    /\ sweep' = [IdleSweep EXCEPT
                   !.pc = IF todo = <<>> THEN "done" ELSE "loop",
                   !.snap = DB, !.rows = todo, !.todo = todo,
                   !.pcs0 = [w \in Workers |-> workers[w].pc],
                   !.pcs1 = [w \in Workers |-> workers[w].pc]]
    /\ UNCHANGED <<now, portfolios, positions, transactions, orders,
                   performance, last, workers, store>>

\* lines 293-309 and 335-342, 370-372: the quote, the fill condition, and
\* the first write of execute_limit_order, portfolio.save(), which waits for
\* the row lock; a BUY filled at its limit writes no cash
SweepQuote(current_price) ==
    LET order == SweepOrder
        user == order.portfolio
        cash0 == sweep.snap.portfolios[user].cash_balance
        refund_amount == (order.limit_price - current_price) * order.quantity
        writes == order.side = "SELL" \/ refund_amount > 0
    IN  /\ sweep.pc = "loop"
        /\ IF ~CanExecute(order, current_price)
           THEN sweep' = Advance
           ELSE /\ writes => ~Blocked(Sweeper, user)
                /\ sweep' = [sweep EXCEPT
                       !.pc = "credited", !.price = current_price,
                       !.holds = writes,
                       !.cash = IF order.side = "SELL"
                                THEN cash0 + current_price * order.quantity
                                ELSE cash0 + refund_amount]
        /\ UNCHANGED <<now, portfolios, positions, transactions, orders,
                       performance, last, ncalls, workers, store>>

\* lines 345-353 and 375: the Position is read, get_or_create for a BUY and
\* get for a SELL; DoesNotExist ends the block in the except clause, and
\* what it has written is committed
SweepPosition ==
    LET order == SweepOrder
        user == order.portfolio
        key == <<user, order.ticker>>
        exists == key \in DOMAIN positions
        read == [sweep EXCEPT !.pc = "positioned",
                    !.inserted = ~exists,
                    !.pos = IF exists THEN positions[key]
                            ELSE [quantity |-> 0, average_buy_price |-> 0]]
    IN  /\ sweep.pc = "credited"
        /\ IF order.side = "BUY"
           THEN /\ exists \/ ~PosBlocked(Sweeper, key)
                /\ sweep' = read
                /\ UNCHANGED portfolios
           ELSE IF exists
                THEN sweep' = read /\ UNCHANGED portfolios
                ELSE /\ sweep' = Advance
                     /\ portfolios' = Put(portfolios, user,
                                          [cash_balance |-> sweep.cash])
        /\ UNCHANGED <<now, positions, transactions, orders, performance,
                       last, ncalls, workers, store>>

\* lines 355-366 and 376-392: the Position is written from the row that was
\* read, the Transaction is stored, the Order row is saved as FILLED from
\* the object the query built, and the block commits
SweepCommit(mode) ==
    LET id == Head(sweep.todo)
        order == SweepOrder
        user == order.portfolio
        key == <<user, order.ticker>>
        upd == IncreasePosition(sweep.pos, TRUE, order.quantity, sweep.price, mode)
        new_qty == sweep.pos.quantity - order.quantity
        executed == Append(transactions,
                       NewTransaction(user, order.ticker, order.side,
                                      order.quantity, sweep.price,
                                      "EXECUTED", ""))
        Filled ==
            /\ transactions' = executed
            /\ orders' = [orders EXCEPT ![id] =
                             [order EXCEPT !.transaction = Len(executed),
                                           !.status = "FILLED"]]
    IN  /\ sweep.pc = "positioned"
        /\ Len(transactions) < MaxTxns
        /\ portfolios' = IF sweep.holds
                         THEN Put(portfolios, user, [cash_balance |-> sweep.cash])
                         ELSE portfolios
        /\ IF order.side = "BUY"
           THEN IF upd.raise
                THEN /\ positions' = IF sweep.inserted
                                     THEN Put(positions, key, sweep.pos)
                                     ELSE positions
                     /\ UNCHANGED <<transactions, orders>>
                ELSE /\ positions' = Put(positions, key, upd.pos)
                     /\ Filled
           ELSE /\ positions' = IF new_qty = 0 THEN Remove(positions, key)
                                ELSE Put(positions, key,
                                         [sweep.pos EXCEPT !.quantity = new_qty])
                /\ Filled
        /\ sweep' = Advance
        /\ UNCHANGED <<now, performance, last, ncalls, workers, store>>

\* process_limit_orders returns
SweepReturn ==
    /\ sweep.pc = "done"
    /\ sweep' = IdleSweep
    /\ UNCHANGED <<now, portfolios, positions, transactions, orders,
                   performance, last, ncalls, workers, store>>

\* calls made one at a time, while nothing else is running
QuietMarketCall == Quiet /\ MarketCall(Quantities, MaxConcCalls)

QuietPlaceCall == Quiet /\ PlaceCall(Quantities, MaxConcCalls)

NextSweep ==
    \/ QuietMarketCall
    \/ QuietPlaceCall
    \/ \E w \in SweepWorkers, u \in Traders, t \in Tickers, s \in Sides,
          q \in Quantities, p \in OraclePrices : MktBegin(w, u, t, s, q, p)
    \/ \E w \in SweepWorkers : MktCheck(w)
    \/ \E w \in SweepWorkers : MktDebit(w)
    \/ \E w \in SweepWorkers : MktPosition(w)
    \/ \E w \in SweepWorkers, m \in RoundingModes : MktCommit(w, m)
    \/ \E w \in SweepWorkers : MktReturn(w)
    \/ \E todo \in Orderings(OpenOrders(DB)) : SweepBegin(todo)
    \/ \E p \in OraclePrices : SweepQuote(p)
    \/ SweepPosition
    \/ \E m \in RoundingModes : SweepCommit(m)
    \/ SweepReturn

SpecSweep == Init /\ [][NextSweep]_vars

\* ------------------- cancel, sweep fill and expiry on the same limit order
\* A request handler runs cancel_limit_order, one process runs
\* process_limit_orders and one runs expire_old_orders, on the same store.
\* cancel_limit_order is an atomic block: it reads the Order with its
\* Portfolio, writes the Portfolio (the row stays locked), writes the Order
\* and commits.  expire_old_orders is not in a transaction: its UPDATE, its
\* query and each portfolio.save() of its loop commit on their own.  Nothing
\* locks the Order row between a read and the write that follows it.
Canceller == "w1"

Expirer == "w2"

\* lines 240-254: the Order is read with its Portfolio, then the two checks
CancelBegin(w, order_id, user) ==
    LET order == orders[order_id]
        owner == order.portfolio
        Start(pc, message) ==
            workers' = [workers EXCEPT ![w] = [IdleWorker EXCEPT
                !.pc = pc, !.user = user, !.order_id = order_id,
                !.message = message,
                !.order = IF order_id \in 1..Len(orders) THEN order ELSE <<>>,
                !.cash = IF order_id \in 1..Len(orders)
                         THEN portfolios[owner].cash_balance ELSE 0]]
    IN  /\ workers[w].pc = "idle"
        /\ ncalls < MaxConcCalls
        /\ ncalls' = ncalls + 1
        /\ IF order_id \notin 1..Len(orders) THEN Start("done", "not_found")
           ELSE IF owner # user THEN Start("done", "permission")
           ELSE IF order.status # "OPEN" THEN Start("done", "not_open")
           ELSE Start("read", "")
        /\ UNCHANGED <<now, portfolios, positions, transactions, orders,
                       performance, last, sweep, store>>

\* lines 257-260: the refund of a BUY is added to the balance that was read;
\* portfolio.save() waits for the row lock
CancelRefund(w) ==
    LET me == workers[w]
        total_amount == me.order.limit_price * me.order.quantity
    IN  /\ me.pc = "read" /\ me.order.side = "BUY"
        /\ ~Blocked(w, me.user)
        /\ workers' = [workers EXCEPT ![w] = [@ EXCEPT !.pc = "refunded",
                                                       !.cash = @ + total_amount]]
        /\ UNCHANGED <<now, portfolios, positions, transactions, orders,
                       performance, last, ncalls, sweep, store>>

\* lines 263-270: order.save() writes the Order as it was read, with status
\* CANCELLED, and the block commits
CancelCommit(w) ==
    LET me == workers[w]
    IN  /\ me.pc \in {"read", "refunded"}
        /\ me.pc = IF me.order.side = "BUY" THEN "refunded" ELSE "read"
        /\ portfolios' = IF me.order.side = "BUY"
                         THEN Put(portfolios, me.user, [cash_balance |-> me.cash])
                         ELSE portfolios
        /\ orders' = [orders EXCEPT ![me.order_id] =
                         [me.order EXCEPT !.status = "CANCELLED"]]
        /\ Finish(w, TRUE, "ok")
        /\ UNCHANGED <<now, positions, transactions, performance, last,
                       ncalls, sweep, store>>

\* lines 410-413: the UPDATE of expire_old_orders
ExpireBegin(w) ==
    /\ workers[w].pc = "idle"
    /\ ncalls < MaxConcCalls
    /\ ncalls' = ncalls + 1
    /\ orders' = ExpireUpdate(DB).orders
    /\ workers' = [workers EXCEPT ![w] = [IdleWorker EXCEPT !.pc = "expired"]]
    /\ UNCHANGED <<now, portfolios, positions, transactions, performance,
                   last, sweep, store>>

\* lines 416-419: the query of the EXPIRED BUY orders, with the Portfolio of
\* every row
ExpireQuery(w, todo) ==
    /\ workers[w].pc = "expired"
    /\ workers' = [workers EXCEPT ![w] = [@ EXCEPT
           !.pc = IF todo = <<>> THEN "done" ELSE "refunding",
           !.success = TRUE, !.todo = todo, !.snap = DB]]
    /\ UNCHANGED <<now, portfolios, positions, transactions, orders,
                   performance, last, ncalls, sweep, store>>

\* lines 421-424: one turn of the loop; portfolio.save() writes the balance
\* the query loaded plus the reservation, and waits for the row lock
ExpireRefund(w) ==
    LET me == workers[w]
        order == me.snap.orders[Head(me.todo)]
        user == order.portfolio
        cash0 == me.snap.portfolios[user].cash_balance
        total_amount == order.limit_price * order.quantity
    IN  /\ me.pc = "refunding"
        /\ ~Blocked(w, user)
        /\ portfolios' = Put(portfolios, user,
                             [cash_balance |-> cash0 + total_amount])
        /\ workers' = [workers EXCEPT ![w] = [@ EXCEPT
               !.todo = Tail(@),
               !.pc = IF Tail(me.todo) = <<>> THEN "done" ELSE "refunding"]]
        /\ UNCHANGED <<now, positions, transactions, orders, performance,
                       last, ncalls, sweep, store>>

NextRace ==
    \/ QuietPlaceCall
    \/ Tick
    \/ \E id \in 1..MaxOrders, u \in Traders : CancelBegin(Canceller, id, u)
    \/ CancelRefund(Canceller)
    \/ CancelCommit(Canceller)
    \/ ExpireBegin(Expirer)
    \/ \E todo \in Orderings(ExpiredBuyOrders(DB)) : ExpireQuery(Expirer, todo)
    \/ ExpireRefund(Expirer)
    \/ \E w \in Workers : MktReturn(w)
    \/ \E todo \in Orderings(OpenOrders(DB)) : SweepBegin(todo)
    \/ \E p \in OraclePrices : SweepQuote(p)
    \/ SweepPosition
    \/ \E m \in RoundingModes : SweepCommit(m)
    \/ SweepReturn

SpecRace == Init /\ [][NextRace]_vars

\* ----------------------------------- every limit order is resolved in time
\* The order book with the scheduler's side of the contract: time goes on,
\* and expire_old_orders is run again whenever it has something to expire.
\* Placements stop early enough for the clock of the model to reach their
\* expiration; placements, cancellations and fill sweeps may stop at any
\* time.
ExpiresInTime == now + DEFAULT_EXPIRATION <= MaxTime

\* the UPDATE of lines 410-413 would change a row
SomethingDue(db) == ExpireUpdate(db).orders # db.orders

\* a run of expire_old_orders that has something to expire
ExpireDue ==
    LET db1 == ExpireUpdate(DB)
    IN  /\ SomethingDue(DB)
        /\ \E todo \in Orderings(ExpiredBuyOrders(db1)) :
              Commit(RefundLoop(db1, db1, todo))
        /\ last' = [NoCall EXCEPT !.op = "expire_old_orders", !.success = TRUE]
        /\ UNCHANGED <<now, performance, ncalls, workers, sweep, store>>

NextLive ==
    \/ ExpiresInTime /\ PlaceCall(Quantities, MaxLiveCalls)
    \/ CancelCall(MaxLiveCalls)
    \/ ProcessCall(MaxLiveCalls)
    \/ ExpireDue
    \/ Tick

SpecLive == Init /\ [][NextLive]_vars /\ WF_vars(ExpireDue) /\ WF_vars(Tick)

\* --------------------------------------------- get_or_create, concurrently
\* The first trades of a user, and the first BUYs of a ticker, made by two
\* request handlers at once.  Here the two tables are sets of rows, so that
\* two rows of one key can be told from one: a row is [id, key, by], where by
\* is the handler whose open transaction inserted it, or "" once committed.
\* get_or_create is a SELECT, then an INSERT when the SELECT found nothing,
\* then a second SELECT when the INSERT was refused by the unique index.
\* A handler sees the committed rows and its own.

\* the unique index reporting no row, whatever the table holds
NoUniqueIndex(rows, key) == {}

\* the rows that the unique index of the table finds under key:
\* Portfolio.user is a OneToOneField, Position has unique_together
\* (portfolio, ticker)
UniqueIndex(rows, key) == {r \in rows : r.key = key}

Visible(rows, w, key) == {r \in rows : r.key = key /\ r.by \in {"", w}}

\* the key the handler is working on in the table
KeyOf(w, table) ==
    IF table = "portfolio" THEN <<workers[w].user>>
    ELSE <<workers[w].user, workers[w].ticker>>

\* where the handler goes once it has its row of the table: a BUY goes on to
\* the position, a SELL finds none and returns
After(w, table) ==
    IF table = "portfolio" /\ workers[w].side = "BUY" THEN "position_get"
    ELSE "commit"

FirstFrame ==
    UNCHANGED <<now, portfolios, positions, transactions, orders, performance,
                last, sweep>>

\* a handler takes the request of a user to trade a ticker
FirstBegin(w, user, ticker, side) ==
    /\ workers[w].pc = "idle"
    /\ ncalls < MaxFirstCalls
    /\ ncalls' = ncalls + 1
    /\ workers' = [workers EXCEPT ![w] =
                      [IdleWorker EXCEPT !.pc = "portfolio_get", !.user = user,
                                         !.ticker = ticker, !.side = side]]
    /\ UNCHANGED store
    /\ FirstFrame

\* the SELECT of get_or_create
FirstGet(w, table) ==
    /\ workers[w].pc = table \o "_get"
    /\ workers' = [workers EXCEPT ![w].pc =
                      IF Visible(store[table], w, KeyOf(w, table)) # {}
                      THEN After(w, table)
                      ELSE table \o "_insert"]
    /\ UNCHANGED <<ncalls, store>>
    /\ FirstFrame

\* the INSERT of get_or_create: it waits while another open transaction holds
\* a row of the key, fails with IntegrityError when a committed row has it
FirstInsert(w, table) ==
    LET key == KeyOf(w, table)
        found == UniqueIndex(store[table], key)
    IN  /\ workers[w].pc = table \o "_insert"
        /\ \A r \in found : r.by = ""
        /\ IF found # {}
           THEN /\ workers' = [workers EXCEPT ![w].pc = table \o "_reget"]
                /\ UNCHANGED store
           ELSE /\ store' = [store EXCEPT ![table] = @ \cup
                                {[id |-> Cardinality(@) + 1, key |-> key,
                                  by |-> w]}]
                /\ workers' = [workers EXCEPT ![w].pc = After(w, table),
                                              ![w].created = TRUE]
        /\ UNCHANGED ncalls
        /\ FirstFrame

\* the SELECT after the IntegrityError returns the row that won
FirstReget(w, table) ==
    /\ workers[w].pc = table \o "_reget"
    /\ Visible(store[table], w, KeyOf(w, table)) # {}
    /\ workers' = [workers EXCEPT ![w].pc = After(w, table)]
    /\ UNCHANGED <<ncalls, store>>
    /\ FirstFrame

\* execute_market_order returns: its transaction commits
FirstCommit(w) ==
    /\ workers[w].pc = "commit"
    /\ store' = [t \in DOMAIN store |->
                    {[r EXCEPT !.by = IF @ = w THEN "" ELSE @] : r \in store[t]}]
    /\ workers' = [workers EXCEPT ![w].pc = "idle"]
    /\ UNCHANGED ncalls
    /\ FirstFrame

NextFirst ==
    \/ \E w \in Workers, u \in Users, t \in Tickers, s \in Sides :
          FirstBegin(w, u, t, s)
    \/ \E w \in Workers, table \in {"portfolio", "position"} :
          FirstGet(w, table)
    \/ \E w \in Workers, table \in {"portfolio", "position"} :
          FirstInsert(w, table)
    \/ \E w \in Workers, table \in {"portfolio", "position"} :
          FirstReget(w, table)
    \/ \E w \in Workers : FirstCommit(w)

SpecFirst == Init /\ [][NextFirst]_vars

\* ------------------------------------------------ views.py: the trade API
\* PortfolioViewSet works on the same tables; its TradingPerformance row is
\* in performance.  A quote of 0 stands for None here ("is None").
NewPerformance == [total_realized_pnl |-> 0, winning_trades |-> 0,
                   losing_trades |-> 0]

ViewResult(db, perf, success, message, realized_pnl) ==
    [db |-> db, perf |-> perf, success |-> success, message |-> message,
     realized_pnl |-> realized_pnl]

\* Transaction.objects.create(...) without a status: the default, PENDING
ViewTransaction(user, ticker, side, quantity, price) ==
    NewTransaction(user, ticker, side, quantity, price, "PENDING", "")

\* PortfolioViewSet.create: the request may carry a cash_balance of its own
PortfolioCreate(db, perf, user, cash_balance) ==
    IF user \in DOMAIN db.portfolios
    THEN ViewResult(db, perf, TRUE, "exists", 0)
    ELSE ViewResult([db EXCEPT !.portfolios =
                        Put(@, user, [cash_balance |-> cash_balance])],
                    Put(perf, user, NewPerformance), TRUE, "created", 0)

\* PortfolioViewSet._execute_buy
ExecuteBuy(db, perf, user, ticker, quantity, price, mode) ==
    LET total_cost == quantity * price
        key == <<user, ticker>>
        db1 == [db EXCEPT
                  !.transactions = Append(@,
                      ViewTransaction(user, ticker, "BUY", quantity, price)),
                  !.portfolios[user].cash_balance = @ - total_cost]
    IN  IF db.portfolios[user].cash_balance < total_cost
        THEN ViewResult(db, perf, FALSE, "insufficient_funds", 0)
        ELSE IF key \in DOMAIN db.positions
        THEN LET position == db.positions[key]
                 total_shares == position.quantity + quantity
             IN  IF total_shares = 0
                 \* ZeroDivisionError leaves the atomic block: rolled back
                 THEN ViewResult(db, perf, FALSE, "exception", 0)
                 ELSE ViewResult(
                        [db1 EXCEPT !.positions[key] =
                            [quantity |-> total_shares,
                             average_buy_price |->
                                QuantizeDiv(position.quantity
                                              * position.average_buy_price
                                            + quantity * price,
                                            total_shares, mode)]],
                        perf, TRUE, "ok", 0)
        ELSE ViewResult([db1 EXCEPT !.positions = Put(@, key,
                            [quantity |-> quantity, average_buy_price |-> price])],
                        perf, TRUE, "ok", 0)

\* _execute_sell saving the emptied position instead of deleting it
ExecuteSellKeepingRow(db, perf, user, ticker, quantity, price) ==
    LET key == <<user, ticker>>
        position == db.positions[key]
        realized_pnl == (price - position.average_buy_price) * quantity
    IN  IF key \notin DOMAIN db.positions
        THEN ViewResult(db, perf, FALSE, "no_position", 0)
        ELSE IF position.quantity < quantity
        THEN ViewResult(db, perf, FALSE, "insufficient_shares", 0)
        ELSE ViewResult(
               [db EXCEPT
                  !.transactions = Append(@,
                      ViewTransaction(user, ticker, "SELL", quantity, price)),
                  !.portfolios[user].cash_balance = @ + quantity * price,
                  !.positions[key].quantity = @ - quantity],
               perf, TRUE, "ok", realized_pnl)

\* PortfolioViewSet._execute_sell
ExecuteSell(db, perf, user, ticker, quantity, price) ==
    LET key == <<user, ticker>>
        position == db.positions[key]
        total_sale == quantity * price
        realized_pnl == (price - position.average_buy_price) * quantity
        new_qty == position.quantity - quantity
        db1 == [db EXCEPT
                  !.transactions = Append(@,
                      ViewTransaction(user, ticker, "SELL", quantity, price)),
                  !.portfolios[user].cash_balance = @ + total_sale]
        perf1 == IF user \in DOMAIN perf
                 THEN [perf EXCEPT
                         ![user].total_realized_pnl = @ + realized_pnl,
                         ![user].winning_trades =
                             IF realized_pnl > 0 THEN @ + 1 ELSE @,
                         ![user].losing_trades =
                             IF realized_pnl < 0 THEN @ + 1 ELSE @]
                 ELSE perf
    IN  IF key \notin DOMAIN db.positions
        THEN ViewResult(db, perf, FALSE, "no_position", 0)
        ELSE IF position.quantity < quantity
        THEN ViewResult(db, perf, FALSE, "insufficient_shares", 0)
        ELSE ViewResult(
               IF new_qty = 0
               THEN [db1 EXCEPT !.positions = Remove(@, key)]
               ELSE [db1 EXCEPT !.positions[key].quantity = new_qty],
               perf1, TRUE, "ok", realized_pnl)

\* PortfolioViewSet.trade
Trade(db, perf, user, ticker, trade_type, quantity, current_price, mode) ==
    IF user \notin DOMAIN db.portfolios
    THEN ViewResult(db, perf, FALSE, "not_found", 0)
    ELSE IF quantity <= 0
    THEN ViewResult(db, perf, FALSE, "invalid_quantity", 0)
    ELSE IF current_price = 0
    THEN ViewResult(db, perf, FALSE, "no_price", 0)
    ELSE IF trade_type = "BUY"
    THEN ExecuteBuy(db, perf, user, ticker, quantity, current_price, mode)
    ELSE ExecuteSell(db, perf, user, ticker, quantity, current_price)

ViewCall(op, user, r) ==
    /\ WithinBounds(r.db, MaxViewCalls)
    /\ Commit(r.db)
    /\ performance' = r.perf
    /\ last' = [NoCall EXCEPT !.op = op, !.user = user,
                   !.success = r.success, !.message = r.message,
                   !.realized_pnl = r.realized_pnl]
    /\ UNCHANGED <<now, workers, sweep, store>>

create ==
    \E u \in Traders, c \in {INITIAL_BALANCE} \cup 0..MaxPrice :
        ViewCall("create", u, PortfolioCreate(DB, performance, u, c))

trade ==
    \E u \in Traders, t \in Tickers, s \in Sides, q \in RawQuantities,
       p \in OraclePrices, m \in RoundingModes :
        ViewCall("trade", u, Trade(DB, performance, u, t, s, q, p, m))

\* the trade API and the service on one store
NextViews ==
    \/ create
    \/ trade
    \/ MarketCall(Quantities, MaxViewCalls)

SpecViews == Init /\ [][NextViews]_vars

\* ----------------------------------------------------------------- claims
\* C1 - solvency: no portfolio ever has a negative cash balance, and a BUY
\* (market order or limit placement) that costs more than the cash at hand
\* is rejected with the cash and the positions as they were.
C1_Solvency ==
    /\ \A u \in DOMAIN portfolios : portfolios[u].cash_balance >= 0
    /\ \A u \in Traders, t \in Tickers, q \in RawQuantities, p \in LimitPrices,
          m \in RoundingModes :
          CashOf(portfolios, u) < q * p =>
             LET r == MarketOrder(DB, u, t, "BUY", q, p, m)
                 o == PlaceLimitOrder(DB, u, t, "BUY", q, p, DEFAULT_EXPIRATION, p)
             IN  /\ ~r.success /\ ~o.success
                 /\ r.db.positions = positions /\ o.db.positions = positions
                 /\ CashOf(r.db.portfolios, u) = CashOf(portfolios, u)
                 /\ CashOf(o.db.portfolios, u) = CashOf(portfolios, u)

\* C2 - share non-negativity: no position ever has a negative quantity, and
\* a SELL for more shares than are held (a market sell, or the fill of an
\* OPEN SELL limit order) leaves every cash balance and every position as
\* they were.
C2_SharesNonNegative ==
    /\ \A k \in DOMAIN positions : positions[k].quantity >= 0
    /\ \A u \in Traders, t \in Tickers, q \in Quantities, p \in LimitPrices,
          m \in RoundingModes :
          Held(positions, u, t) < q =>
             LET r == MarketOrder(DB, u, t, "SELL", q, p, m)
             IN  /\ ~r.success
                 /\ r.db.positions = positions
                 /\ CashOf(r.db.portfolios, u) = CashOf(portfolios, u)
    /\ \A i \in OpenOrders(DB), p \in LimitPrices, m \in RoundingModes :
          LET order == orders[i]
              cash0 == portfolios[order.portfolio].cash_balance
          IN  (/\ order.side = "SELL"
               /\ CanExecute(order, p)
               /\ Held(positions, order.portfolio, order.ticker) < order.quantity)
              => LET r == LimitFill(DB, i, order, cash0, p, m)
                 IN  /\ r.db.positions = positions
                     /\ r.db.portfolios = portfolios

\* C3 - concurrent-trade serialization: of two BUY market orders that run
\* at the same time on one portfolio, each affordable alone and not both
\* together, exactly one succeeds and the other fails for insufficient
\* funds; the cash ends at the starting balance less the cost of the one
\* that succeeded and the position grows by that trade's shares only.
C3_SerializedBuys ==
    \A a, b \in Workers :
       LET x == workers[a]
           y == workers[b]
           cost_x == x.price * x.quantity
           cost_y == y.price * y.quantity
           won == IF x.success THEN x ELSE y
       IN  (/\ a # b
            /\ x.pc = "done" /\ y.pc = "done"
            /\ x.overlap /\ y.overlap
            /\ x.side = "BUY" /\ y.side = "BUY"
            /\ x.user = y.user /\ x.ticker = y.ticker
            /\ x.price > 0 /\ y.price > 0
            /\ cost_x <= x.cash0 /\ cost_y <= x.cash0
            /\ cost_x + cost_y > x.cash0)
           => /\ x.success # y.success
              /\ \E l \in {x, y} : ~l.success /\ l.message = "insufficient_funds"
              /\ portfolios[x.user].cash_balance
                   = x.cash0 - won.price * won.quantity
              /\ Held(positions, x.user, x.ticker) = x.held0 + won.quantity

\* C4 - audit completeness: every call of execute_market_order stores exactly
\* one more Transaction, EXECUTED when the call succeeds and FAILED with a
\* reason when it fails.
C4_OneTransactionPerCall ==
    [][(ncalls' # ncalls /\ last'.op = "execute_market_order") =>
         /\ Len(transactions') = Len(transactions) + 1
         /\ SubSeq(transactions', 1, Len(transactions)) = transactions
         /\ LET t == transactions'[Len(transactions')]
            IN  IF last'.success THEN t.status = "EXECUTED"
                ELSE t.status = "FAILED" /\ t.notes # ""]_vars

\* C5 - reservation round trip: placing a BUY limit order and cancelling it
\* as its owner, with nothing in between, leaves the cash balance exactly
\* where it was before the placement.
C5_ReservationRoundTrip ==
    \A u \in Traders, t \in Tickers, q \in Quantities, l \in LimitPrices,
       p \in OraclePrices :
       LET placed == PlaceLimitOrder(DB, u, t, "BUY", q, l, DEFAULT_EXPIRATION, p)
           id == Len(placed.db.orders)
           cancelled == CancelLimitOrder(placed.db, id, u)
       IN  placed.success =>
             /\ cancelled.success
             /\ cancelled.db.orders[id].status = "CANCELLED"
             /\ cancelled.db.portfolios[u].cash_balance = CashOf(portfolios, u)
             /\ cancelled.db.portfolios[u].cash_balance
                  = placed.db.portfolios[u].cash_balance + l * q

\* a BUY limit order was placed by the first call and cancelled by the second
C5_Witness ==
    /\ ncalls = 2
    /\ last.op = "cancel_limit_order" /\ last.success /\ last.order_id = 1
    /\ orders[1].side = "BUY" /\ orders[1].status = "CANCELLED"
    /\ portfolios[orders[1].portfolio].cash_balance = INITIAL_BALANCE

\* the orders whose status the step changed from one value to another
Moved(from, to) ==
    {i \in 1..Len(orders) : orders[i].status = from /\ orders'[i].status = to}

RECURSIVE SumOf(_, _)
SumOf(S, f) ==
    IF S = {} THEN 0
    ELSE LET x == CHOOSE y \in S : TRUE IN f[x] + SumOf(S \ {x}, f)

\* C6 - price-improvement refund: a sweep that fills BUY limit orders records
\* the observed price p as the fill price and credits (L - p) x q to the
\* portfolio for each of them, so that the order has cost p x q in all
\* (stated for the portfolios whose orders in the sweep are all BUY orders).
C6_FillRefund ==
    [][(ncalls' # ncalls /\ last'.op = "process_limit_orders") =>
         LET filled == Moved("OPEN", "FILLED")
             fill_price == [i \in filled |->
                               transactions'[orders'[i].transaction].price]
             credit == [i \in filled |->
                          IF orders[i].side = "BUY"
                          THEN (orders[i].limit_price - fill_price[i])
                                 * orders[i].quantity
                          ELSE fill_price[i] * orders[i].quantity]
         IN  \A u \in DOMAIN portfolios :
               (\A i \in OpenOrders(DB) :
                    orders[i].portfolio = u => orders[i].side = "BUY")
               => /\ \A i \in filled : orders[i].portfolio = u =>
                        /\ fill_price[i] <= orders[i].limit_price
                        /\ transactions'[orders'[i].transaction].total_amount
                             = fill_price[i] * orders[i].quantity
                  /\ portfolios'[u].cash_balance = portfolios[u].cash_balance
                       + SumOf({i \in filled : orders[i].portfolio = u}, credit)]_vars

\* C7 - expiry sweep: one run of expire_old_orders moves exactly the OPEN
\* orders whose expiration is <= now to EXPIRED, stores no Transaction, and
\* raises each portfolio's cash by the reservations of its BUY orders that
\* this run expired - by nothing for SELL orders or orders expired earlier.
C7_ExpirySweep ==
    [][(ncalls' # ncalls /\ last'.op = "expire_old_orders") =>
         LET due == {i \in 1..Len(orders) :
                       orders[i].status = "OPEN" /\ orders[i].expiration_date <= now}
             reservation == [i \in due |-> orders[i].limit_price * orders[i].quantity]
         IN  /\ Len(orders') = Len(orders)
             /\ \A i \in 1..Len(orders) :
                  orders'[i] = IF i \in due
                               THEN [orders[i] EXCEPT !.status = "EXPIRED"]
                               ELSE orders[i]
             /\ transactions' = transactions
             /\ positions' = positions
             /\ \A u \in DOMAIN portfolios :
                  portfolios'[u].cash_balance = portfolios[u].cash_balance
                    + SumOf({i \in due : orders[i].portfolio = u
                                         /\ orders[i].side = "BUY"}, reservation)]_vars

\* C8 - one-way lifecycle: an order only ever goes from OPEN to FILLED,
\* CANCELLED or EXPIRED, a finished order keeps its status, and a cancel,
\* fill sweep or expiry sweep changes nothing of a portfolio whose orders
\* are all finished.
C8_OneWayLifecycle ==
    [][/\ \A i \in 1..Len(orders) :
            /\ orders[i].status # "OPEN" => orders'[i].status = orders[i].status
            /\ orders'[i].status \in {"OPEN", "FILLED", "CANCELLED", "EXPIRED"}
       /\ (ncalls' # ncalls /\ last'.op \in {"cancel_limit_order",
                     "process_limit_orders", "expire_old_orders"}) =>
            \A u \in DOMAIN portfolios :
               (\A i \in 1..Len(orders) :
                    orders[i].portfolio = u => orders[i].status # "OPEN")
               => /\ portfolios'[u] = portfolios[u]
                  /\ \A t \in Tickers :
                       Held(positions', u, t) = Held(positions, u, t)
                  /\ transactions' = transactions]_vars

\* the average cost a position should have after add_qty more shares at
\* fill_price: the weighted average, to the nearest cent
IsWeightedAverage(avg, old, add_qty, fill_price) ==
    LET n == old.quantity + add_qty
        total == old.quantity * old.average_buy_price + add_qty * fill_price
    IN  n # 0 /\ 2 * Abs(avg * n - total) <= Abs(n)

Increased(before, after, key, add_qty, fill_price) ==
    /\ key \in DOMAIN after
    /\ IF key \in DOMAIN before
       THEN /\ after[key].quantity = before[key].quantity + add_qty
            /\ IsWeightedAverage(after[key].average_buy_price, before[key],
                                 add_qty, fill_price)
       ELSE /\ after[key].quantity = add_qty
            /\ after[key].average_buy_price = fill_price

\* C9 - weighted-average cost: an increasing trade (market BUY or BUY limit
\* fill) of add_qty shares at fill_price turns an existing position
\* (old_qty, old_avg) into old_qty + add_qty shares at the weighted average
\* (old_qty*old_avg + add_qty*fill_price) / (old_qty + add_qty), and
\* creates a missing position with add_qty shares at fill_price.
C9_WeightedAverage ==
    /\ \A u \in Traders, t \in Tickers, q \in Quantities, p \in LimitPrices,
          m \in RoundingModes :
          CashOf(portfolios, u) >= q * p =>
             LET r == MarketOrder(DB, u, t, "BUY", q, p, m)
             IN  r.success /\ Increased(positions, r.db.positions, <<u, t>>, q, p)
    /\ \A i \in OpenOrders(DB), p \in LimitPrices, m \in RoundingModes :
          LET order == orders[i]
              r == LimitFill(DB, i, order,
                             portfolios[order.portfolio].cash_balance, p, m)
          IN  (order.side = "BUY" /\ order.quantity > 0 /\ CanExecute(order, p))
              => r.success /\ Increased(positions, r.db.positions,
                                        <<order.portfolio, order.ticker>>,
                                        order.quantity, p)

C11_NonPositiveRejected ==
    \A u \in Traders, t \in Tickers, s \in Sides, q \in RawQuantities,
       p \in LimitPrices, m \in RoundingModes :
       q <= 0 =>
          LET r == MarketOrder(DB, u, t, s, q, p, m)
              v == Trade(DB, performance, u, t, s, q, p, m)
          IN  /\ ~r.success
              /\ r.db.positions = positions
              /\ CashOf(r.db.portfolios, u) = CashOf(portfolios, u)
              /\ ~v.success
              /\ v.db.positions = positions
              /\ CashOf(v.db.portfolios, u) = CashOf(portfolios, u)

\* C12 - atomicity of a trade or fill: a run of execute_market_order or
\* execute_limit_order that succeeds has stored its Transaction and moved
\* the position (and marked the order FILLED); one that fails has changed
\* no cash balance, no position and no order.
C12_Atomicity ==
    /\ \A u \in Traders, t \in Tickers, s \in Sides, q \in Quantities,
          p \in OraclePrices, m \in RoundingModes :
          LET r == MarketOrder(DB, u, t, s, q, p, m)
          IN  IF r.success
              THEN /\ Len(r.db.transactions) = Len(transactions) + 1
                   /\ r.db.transactions[Len(r.db.transactions)].status = "EXECUTED"
                   /\ Held(r.db.positions, u, t) # Held(positions, u, t)
              ELSE /\ r.db.positions = positions
                   /\ r.db.orders = orders
                   /\ CashOf(r.db.portfolios, u) = CashOf(portfolios, u)
    /\ \A i \in OpenOrders(DB), p \in OraclePrices, m \in RoundingModes :
          LET order == orders[i]
              r == LimitFill(DB, i, order,
                             portfolios[order.portfolio].cash_balance, p, m)
          IN  CanExecute(order, p) =>
                IF r.success
                THEN /\ Len(r.db.transactions) = Len(transactions) + 1
                     /\ r.db.transactions[Len(r.db.transactions)].status = "EXECUTED"
                     /\ r.db.orders[i].status = "FILLED"
                     /\ Held(r.db.positions, order.portfolio, order.ticker)
                          # Held(positions, order.portfolio, order.ticker)
                ELSE /\ r.db.positions = positions
                     /\ r.db.orders = orders
                     /\ r.db.transactions = transactions
                     /\ r.db.portfolios = portfolios

\* C14 - cancel guards: a cancel by anybody but the owner of the order's
\* portfolio fails (permission), a cancel of an order that is not OPEN fails
\* (not open), and both leave every order and every cash balance as they
\* were; a cancel that succeeds sets the order CANCELLED and credits
\* quantity x limit_price to the owner for a BUY, nothing for a SELL.
C14_CancelGuards ==
    \A id \in 1..Len(orders), u \in Users :
       LET order == orders[id]
           r == CancelLimitOrder(DB, id, u)
           reserved == IF order.side = "BUY"
                       THEN order.quantity * order.limit_price ELSE 0
       IN  /\ order.portfolio # u =>
                /\ ~r.success /\ r.db = DB
                /\ order.status = "OPEN" => r.message = "permission"
           /\ order.status # "OPEN" =>
                /\ ~r.success /\ r.db = DB
                /\ order.portfolio = u => r.message = "not_open"
           /\ (order.portfolio = u /\ order.status = "OPEN") =>
                /\ r.success
                /\ r.db.orders = [orders EXCEPT ![id].status = "CANCELLED"]
                /\ r.db.portfolios = [portfolios EXCEPT
                       ![u].cash_balance = @ + reserved]
                /\ r.db.positions = positions
                /\ r.db.transactions = transactions

\* somebody else has just tried to cancel an OPEN order and was refused
C14_Witness ==
    /\ last.op = "cancel_limit_order" /\ ~last.success
    /\ last.message = "permission"
    /\ last.order_id \in 1..Len(orders)
    /\ orders[last.order_id].status = "OPEN"
    /\ orders[last.order_id].side = "BUY"

\* C15 - effect of a placement: a BUY placement that succeeds takes exactly
\* quantity x limit_price from the cash balance and stores exactly one more
\* order, OPEN, expiring at now + expiration_days; a SELL placement that
\* succeeds stores one OPEN order and changes no cash and no position; a
\* placement that is rejected stores no order and changes no cash and no
\* position.
C15_PlacementEffect ==
    \A u \in Traders, t \in Tickers, s \in Sides, q \in Quantities,
       l \in LimitPrices, d \in 0..DEFAULT_EXPIRATION, p \in OraclePrices :
       LET r == PlaceLimitOrder(DB, u, t, s, q, l, d, p)
           id == Len(orders) + 1
       IN  /\ r.db.positions = positions
           /\ r.db.transactions = transactions
           /\ \A o \in DOMAIN portfolios \ {u} :
                 r.db.portfolios[o] = portfolios[o]
           /\ IF r.success
              THEN /\ Len(r.db.orders) = id
                   /\ SubSeq(r.db.orders, 1, Len(orders)) = orders
                   /\ r.db.orders[id].status = "OPEN"
                   /\ r.db.orders[id].portfolio = u
                   /\ r.db.orders[id].ticker = t
                   /\ r.db.orders[id].side = s
                   /\ r.db.orders[id].quantity = q
                   /\ r.db.orders[id].limit_price = l
                   /\ r.db.orders[id].expiration_date = now + d
                   /\ CashOf(r.db.portfolios, u) = CashOf(portfolios, u)
                        - (IF s = "BUY" THEN q * l ELSE 0)
              ELSE /\ r.db.orders = orders
                   /\ CashOf(r.db.portfolios, u) = CashOf(portfolios, u)

\* a BUY order at a limit above the quote has just been placed
C15_Witness ==
    /\ last.op = "place_limit_order" /\ last.success
    /\ last.order_id = Len(orders)
    /\ orders[last.order_id].side = "BUY"
    /\ orders[last.order_id].status = "OPEN"
    /\ orders[last.order_id].limit_price = MaxPrice
    /\ portfolios[last.user].cash_balance
         = INITIAL_BALANCE - orders[last.order_id].quantity * MaxPrice

\* whether the limit price alone admits the placement: the funds of a BUY,
\* the shares of a SELL
Admitted(user, ticker, side, quantity, limit_price) ==
    IF side = "BUY"
    THEN CashOf(portfolios, user) >= quantity * limit_price
    ELSE /\ <<user, ticker>> \in DOMAIN positions
         /\ positions[<<user, ticker>>].quantity >= quantity

\* C16 as stated - validation against the limit price alone: a BUY
\* placement is accepted exactly when cash >= quantity x limit_price and a
\* SELL placement exactly when a position of at least the order's quantity
\* exists, whatever the price oracle returns.
C16_OracleIndependent ==
    \A u \in Traders, t \in Tickers, s \in Sides, q \in Quantities,
       l \in LimitPrices, p \in OraclePrices :
       PlaceLimitOrder(DB, u, t, s, q, l, DEFAULT_EXPIRATION, p).success
          <=> Admitted(u, t, s, q, l)

\* C16 - validation against the limit price, given a quote: when the price
\* oracle returns a price, a BUY placement is accepted exactly when
\* cash >= quantity x limit_price and a SELL placement exactly when a
\* position of at least the order's quantity exists, whatever that price
\* is; when the oracle returns no price the placement is rejected.
C16_ValidatesAgainstLimit ==
    \A u \in Traders, t \in Tickers, s \in Sides, q \in RawQuantities,
       l \in LimitPrices, p \in OraclePrices :
       LET r == PlaceLimitOrder(DB, u, t, s, q, l, DEFAULT_EXPIRATION, p)
       IN  /\ r.success <=> (p # 0 /\ Admitted(u, t, s, q, l))
           /\ p = 0 => r.message = "no_price"

\* a placement has just been turned down for want of a quote by a portfolio
\* that can pay for any order
C16_Witness ==
    /\ last.op = "place_limit_order" /\ ~last.success
    /\ last.message = "no_price"
    /\ last.user \in DOMAIN portfolios
    /\ portfolios[last.user].cash_balance >= MaxQty * MaxPrice
    /\ orders # <<>>

\* the condition under which the sweep is to fill an order at a quote
Fillable(order, price) ==
    /\ order.status = "OPEN"
    /\ order.expiration_date > now
    /\ price # 0
    /\ order.side = "BUY" => price <= order.limit_price
    /\ order.side = "SELL" => price >= order.limit_price

\* C17 - fill condition: a run of process_limit_orders changes an order only
\* by filling it, and fills it only if it is OPEN, expires after now, has a
\* quote, and the quote is <= the limit of a BUY or >= the limit of a SELL;
\* every other order stays as it is, one Transaction at most is stored per
\* order that meets the condition, and a portfolio none of whose orders
\* meets it keeps its cash and its positions.
C17_FillCondition ==
    \A todo \in Orderings(OpenOrders(DB)),
       prices \in [1..Len(orders) -> OraclePrices], m \in RoundingModes :
       LET db == ProcessLoop(DB, DB, todo, prices, m)
           eligible == {i \in 1..Len(orders) : Fillable(orders[i], prices[i])}
           filled == {i \in 1..Len(orders) : db.orders[i] # orders[i]}
       IN  /\ Len(db.orders) = Len(orders)
           /\ filled \subseteq eligible
           /\ \A i \in filled :
                 /\ db.orders[i].status = "FILLED"
                 /\ db.transactions[db.orders[i].transaction].price = prices[i]
           /\ Len(db.transactions) = Len(transactions) + Cardinality(filled)
           /\ SubSeq(db.transactions, 1, Len(transactions)) = transactions
           /\ \A u \in DOMAIN portfolios :
                 (\A i \in eligible : orders[i].portfolio # u) =>
                    /\ db.portfolios[u] = portfolios[u]
                    /\ \A t \in Tickers :
                          Held(db.positions, u, t) = Held(positions, u, t)

\* a sweep has just filled one order and left another, placed at a lower
\* limit, OPEN
C17_Witness ==
    /\ last.op = "process_limit_orders"
    /\ Len(transactions) = 1
    /\ \E i, j \in 1..Len(orders) :
          /\ orders[i].status = "FILLED" /\ orders[i].side = "BUY"
          /\ orders[j].status = "OPEN" /\ orders[j].side = "BUY"
          /\ orders[j].limit_price < orders[i].limit_price

\* C18 - sweep ordering, no partial fills: the orders of one ticker that a
\* run of process_limit_orders fills are filled in ascending order of their
\* ids (their Transactions are stored in that order), and each of them is
\* filled for its whole quantity.
C18_AscendingIds ==
    [][(ncalls' # ncalls /\ last'.op = "process_limit_orders") =>
         LET filled == Moved("OPEN", "FILLED")
         IN  /\ \A i, j \in filled :
                  (i < j /\ orders[i].ticker = orders[j].ticker)
                  => orders'[i].transaction < orders'[j].transaction
             /\ \A i \in filled :
                  /\ orders'[i].quantity = orders[i].quantity
                  /\ transactions'[orders'[i].transaction].quantity
                       = orders[i].quantity]_vars

\* the rows of a table (a sequence) that belong to the user's portfolio
RowsOf(rows, user) ==
    {i \in 1..Len(rows) : rows[i].portfolio = user}

\* db differs from the store in nothing that belongs to a portfolio other
\* than the user's
OthersUntouched(db, user) ==
    \A o \in Users \ {user} :
       /\ o \in DOMAIN db.portfolios <=> o \in DOMAIN portfolios
       /\ o \in DOMAIN portfolios => db.portfolios[o] = portfolios[o]
       /\ \A t \in Tickers :
             /\ <<o, t>> \in DOMAIN db.positions <=> <<o, t>> \in DOMAIN positions
             /\ <<o, t>> \in DOMAIN positions
                   => db.positions[<<o, t>>] = positions[<<o, t>>]
       /\ RowsOf(db.orders, o) = RowsOf(orders, o)
       /\ \A i \in RowsOf(orders, o) : db.orders[i] = orders[i]
       /\ RowsOf(db.transactions, o) = RowsOf(transactions, o)
       /\ \A i \in RowsOf(transactions, o) : db.transactions[i] = transactions[i]

\* C19 - independence of portfolios: a market trade, a limit-order
\* placement, a cancellation or a fill for one portfolio leaves the cash
\* balance, the positions, the transactions and the orders of every other
\* portfolio as they were.
C19_Independence ==
    /\ \A u \in Users, t \in Tickers, s \in Sides, q \in Quantities,
          p \in OraclePrices, m \in RoundingModes :
          OthersUntouched(MarketOrder(DB, u, t, s, q, p, m).db, u)
    /\ \A u \in Users, t \in Tickers, s \in Sides, q \in Quantities,
          l \in LimitPrices, p \in OraclePrices :
          OthersUntouched(PlaceLimitOrder(DB, u, t, s, q, l,
                                          DEFAULT_EXPIRATION, p).db, u)
    /\ \A id \in 1..Len(orders), u \in Users :
          OthersUntouched(CancelLimitOrder(DB, id, u).db, orders[id].portfolio)
    /\ \A i \in OpenOrders(DB), p \in OraclePrices, m \in RoundingModes :
          CanExecute(orders[i], p) =>
             OthersUntouched(LimitFill(DB, i, orders[i],
                                portfolios[orders[i].portfolio].cash_balance,
                                p, m).db,
                             orders[i].portfolio)

\* one user has just traded while the other holds shares and has an order
\* or a trade on record
C19_Witness ==
    /\ last.op = "execute_market_order" /\ last.success
    /\ \E o \in Users \ {last.user} :
          /\ o \in DOMAIN portfolios
          /\ portfolios[o].cash_balance < INITIAL_BALANCE
          /\ RowsOf(orders, o) \cup RowsOf(transactions, o) # {}

\* C20 - stored positions are positive: no position exists in the store
\* with a quantity <= 0.
C20_PositionsPositive ==
    \A k \in DOMAIN positions : positions[k].quantity > 0

\* C13 - no double-spend between a market trade and a limit fill: when a
\* market order and a sweep that has one order to fill run at the same time
\* on one portfolio and ticker, the cash balance and the held quantity end
\* where the operations that succeeded, applied one after the other, put
\* them (the market order's cost or proceeds, the fill's refund or
\* proceeds), and neither ends below zero.
C13_TradeAndFillSerialized ==
    \A w \in SweepWorkers :
       LET me == workers[w]
           id == sweep.rows[1]
           order == sweep.snap.orders[id]
           u == order.portfolio
           t == order.ticker
           began_first == sweep.pcs0[w] \in {"begun", "checked", "debited",
                                             "positioned"}
           overlap == \/ began_first
                      \/ sweep.pcs0[w] = "idle" /\ sweep.pcs1[w] # "idle"
           cash_base == IF began_first THEN me.cash0
                        ELSE sweep.snap.portfolios[u].cash_balance
           held_base == IF began_first THEN me.held0
                        ELSE Held(sweep.snap.positions, u, t)
           filled == orders[id].status = "FILLED"
           fill_price == transactions[orders[id].transaction].price
           trade_cash == IF ~me.success THEN 0
                         ELSE IF me.side = "BUY" THEN 0 - me.price * me.quantity
                         ELSE me.price * me.quantity
           trade_held == IF ~me.success THEN 0
                         ELSE IF me.side = "BUY" THEN me.quantity
                         ELSE 0 - me.quantity
           fill_cash == IF ~filled THEN 0
                        ELSE IF order.side = "BUY"
                        THEN (order.limit_price - fill_price) * order.quantity
                        ELSE fill_price * order.quantity
           fill_held == IF ~filled THEN 0
                        ELSE IF order.side = "BUY" THEN order.quantity
                        ELSE 0 - order.quantity
       IN  (/\ sweep.pc = "done" /\ me.pc = "done"
            /\ Len(sweep.rows) = 1
            /\ overlap
            /\ me.user = u /\ me.ticker = t)
           => /\ portfolios[u].cash_balance = cash_base + trade_cash + fill_cash
              /\ Held(positions, u, t) = held_base + trade_held + fill_held
              /\ portfolios[u].cash_balance >= 0
              /\ Held(positions, u, t) >= 0

\* ------------------------------------------------------------------- C21
\* the three validation failures of execute_market_order
Rejections == {"insufficient_funds", "no_position", "insufficient_shares"}

\* C21: a market trade rejected for insufficient funds, a missing position or
\* insufficient shares leaves the cash balance of the portfolio (the starting
\* balance when the call created it), every position and every order as they
\* were; the one thing it adds is the FAILED Transaction of the audit trail.
C21_RejectionFrame ==
    \A u \in Traders, t \in Tickers, s \in Sides, q \in Lots,
       p \in OraclePrices, m \in RoundingModes :
       LET r == MarketOrder(DB, u, t, s, q, p, m)
           n == Len(transactions) + 1
       IN  r.message \in Rejections =>
             /\ ~r.success
             /\ r.db.portfolios[u].cash_balance = CashOf(portfolios, u)
             /\ \A v \in DOMAIN portfolios : r.db.portfolios[v] = portfolios[v]
             /\ r.db.positions = positions
             /\ r.db.orders = orders
             /\ Len(r.db.transactions) = n
             /\ SubSeq(r.db.transactions, 1, n - 1) = transactions
             /\ r.db.transactions[n].status = "FAILED"

\* a SELL of more shares than the position holds was rejected and recorded
C21_Witness ==
    /\ last.op = "execute_market_order"
    /\ last.message = "insufficient_shares"
    /\ positions # <<>>
    /\ portfolios["u1"].cash_balance < INITIAL_BALANCE
    /\ transactions[Len(transactions)].status = "FAILED"

\* ------------------------------------------------------------------- C22
\* the position of user in ticker after the sale is the one before it with
\* sold shares fewer and the same average cost
Decreased(before, after, key, sold) ==
    /\ key \in DOMAIN after
    /\ after[key].quantity = before[key].quantity - sold
    /\ after[key].average_buy_price = before[key].average_buy_price
    /\ \A k \in DOMAIN before \ {key} : k \in DOMAIN after /\ after[k] = before[k]

\* C22: a market SELL, and the fill of a SELL limit order, of fewer shares
\* than the portfolio holds succeeds, takes the sold quantity off the position
\* and leaves its average cost as it was.
C22_DecreaseKeepsAverage ==
    /\ \A key \in DOMAIN positions, q \in Quantities :
          q < positions[key].quantity =>
            \A p \in LimitPrices, m \in RoundingModes :
              LET r == MarketOrder(DB, key[1], key[2], "SELL", q, p, m)
              IN  r.success /\ Decreased(positions, r.db.positions, key, q)
    /\ \A id \in OpenOrders(DB) :
          LET order == orders[id]
              key == <<order.portfolio, order.ticker>>
          IN  (/\ order.side = "SELL"
               /\ key \in DOMAIN positions
               /\ order.quantity < positions[key].quantity) =>
                \A p \in LimitPrices, m \in RoundingModes :
                  CanExecute(order, p) =>
                    LET r == LimitFill(DB, id, order,
                                 portfolios[order.portfolio].cash_balance, p, m)
                    IN  /\ r.success
                        /\ Decreased(positions, r.db.positions, key,
                                     order.quantity)

\* part of a position bought at another price was sold at the market: the
\* rest is still held
C22_Witness ==
    /\ last.op = "execute_market_order"
    /\ last.success
    /\ LET t == transactions[Len(transactions)]
       IN  /\ t.status = "EXECUTED"
           /\ t.transaction_type = "SELL"
           /\ <<t.portfolio, t.ticker>> \in DOMAIN positions
           /\ positions[<<t.portfolio, t.ticker>>].quantity > 0
           /\ positions[<<t.portfolio, t.ticker>>].average_buy_price # t.price

\* ------------------------------------------------------------------- C23
\* Transaction number n records a fill of order
RecordsFill(n, order) ==
    /\ n \in 1..Len(transactions)
    /\ transactions[n].status = "EXECUTED"
    /\ transactions[n].portfolio = order.portfolio
    /\ transactions[n].ticker = order.ticker
    /\ transactions[n].transaction_type = order.side
    /\ transactions[n].quantity = order.quantity
    /\ CanExecute(order, transactions[n].price)

\* C23: an order is FILLED exactly when it is linked to a Transaction; the
\* Transaction is EXECUTED, of the order's portfolio, ticker, side and
\* quantity, at a price that meets the limit, and linked to no other order.
\* A fill at the observed price p stores exactly one Transaction, at price p,
\* and links it; a fill that fails stores and links none.
C23_FillBookkeeping ==
    /\ \A i \in 1..Len(orders) :
          /\ orders[i].status = "FILLED" <=> orders[i].transaction # 0
          /\ orders[i].transaction # 0 =>
                /\ RecordsFill(orders[i].transaction, orders[i])
                /\ \A j \in 1..Len(orders) :
                      orders[j].transaction = orders[i].transaction => j = i
    /\ \A id \in OpenOrders(DB), p \in LimitPrices, m \in RoundingModes :
          CanExecute(orders[id], p) =>
            LET r == LimitFill(DB, id, orders[id],
                               portfolios[orders[id].portfolio].cash_balance, p, m)
                n == Len(transactions) + 1
            IN  IF r.success
                THEN /\ Len(r.db.transactions) = n
                     /\ SubSeq(r.db.transactions, 1, n - 1) = transactions
                     /\ r.db.transactions[n].price = p
                     /\ r.db.transactions[n].status = "EXECUTED"
                     /\ r.db.orders[id].status = "FILLED"
                     /\ r.db.orders[id].transaction = n
                ELSE /\ r.db.transactions = transactions
                     /\ r.db.orders = orders

\* a sweep has filled one order and linked its Transaction, and has left
\* another order of the book OPEN and without one
C23_Witness ==
    /\ last.op = "process_limit_orders"
    /\ \E i, j \in 1..Len(orders) :
          /\ orders[i].status = "FILLED"
          /\ RecordsFill(orders[i].transaction, orders[i])
          /\ orders[j].status = "OPEN"
          /\ orders[j].transaction = 0

\* ------------------------------------------------------------------- C24
\* C24: after one run of process_limit_orders that fills two or more orders
\* of one portfolio, the cash balance of the portfolio is its balance before
\* the sweep plus (limit_price - fill_price) x quantity for each BUY filled
\* and fill_price x quantity for each SELL filled: no fill's cash effect is
\* overwritten by a later fill of the same sweep.
C24_SweepFillsAllCount ==
    [][(ncalls' # ncalls /\ last'.op = "process_limit_orders") =>
         LET filled == Moved("OPEN", "FILLED")
             fill_price == [i \in filled |->
                               transactions'[orders'[i].transaction].price]
             effect == [i \in filled |->
                          IF orders[i].side = "BUY"
                          THEN (orders[i].limit_price - fill_price[i])
                                 * orders[i].quantity
                          ELSE fill_price[i] * orders[i].quantity]
         IN  \A u \in DOMAIN portfolios :
               LET mine == {i \in filled : orders[i].portfolio = u}
               IN  Cardinality(mine) >= 2 =>
                     portfolios'[u].cash_balance =
                         portfolios[u].cash_balance + SumOf(mine, effect)]_vars

\* ------------------------------------------------------------------- C25
\* a stored Transaction whose amount, status and timestamp agree
Final(t) ==
    /\ t.total_amount = t.quantity * t.price
    /\ t.status \in {"EXECUTED", "FAILED"}
    /\ t.status = "EXECUTED" => t.executed_at >= 0

CashEffect ==
    IF ~last'.success THEN 0
    ELSE IF last'.op = "execute_market_order"
    THEN LET t == transactions'[Len(transactions')]
         IN  IF t.transaction_type = "BUY" THEN 0 - t.total_amount
             ELSE t.total_amount
    ELSE LET o == orders'[Len(orders')]
         IN  IF o.side = "BUY" THEN 0 - o.quantity * o.limit_price ELSE 0

\* C27: a market trade or a placement by a user without a portfolio creates
\* one and works on the starting balance; by a user with a portfolio it works
\* on the balance that portfolio has, which is never put back to the starting
\* balance; no portfolio is removed.
C27_LazyPortfolio ==
    [][(ncalls' # ncalls
        /\ last'.op \in {"execute_market_order", "place_limit_order"}) =>
          LET u == last'.user
          IN  /\ DOMAIN portfolios' = DOMAIN portfolios \cup {u}
              /\ portfolios'[u].cash_balance =
                    (IF u \in DOMAIN portfolios
                     THEN portfolios[u].cash_balance
                     ELSE INITIAL_BALANCE) + CashEffect]_vars

\* the user has traded twice and the balance shows both trades
C27_Witness ==
    /\ last.op = "execute_market_order"
    /\ last.success
    /\ Len(transactions) = 2
    /\ \A n \in 1..2 : /\ transactions[n].status = "EXECUTED"
                       /\ transactions[n].transaction_type = "BUY"
    /\ portfolios["u1"].cash_balance = INITIAL_BALANCE
          - transactions[1].total_amount - transactions[2].total_amount

\* ------------------------------------------------------------------- C28
\* the position of key was sold whole: an executed SELL is on record and no
\* row is left
Closed(key) ==
    /\ key \notin DOMAIN positions
    /\ \E n \in 1..Len(transactions) :
          /\ transactions[n].status = "EXECUTED"
          /\ transactions[n].transaction_type = "SELL"
          /\ <<transactions[n].portfolio, transactions[n].ticker>> = key

\* C28: once a position was sold whole, the next market BUY or BUY fill of
\* the ticker at price p makes a position of the bought quantity at average
\* cost p, whatever the average cost of the closed position was.
C28_ResetOnClose ==
    /\ \A u \in Traders, t \in Tickers :
          Closed(<<u, t>>) =>
            \A q \in Quantities, p \in LimitPrices, m \in RoundingModes :
              LET r == MarketOrder(DB, u, t, "BUY", q, p, m)
              IN  r.success =>
                    r.db.positions[<<u, t>>] =
                        [quantity |-> q, average_buy_price |-> p]
    /\ \A id \in OpenOrders(DB) :
          LET order == orders[id]
              key == <<order.portfolio, order.ticker>>
          IN  (order.side = "BUY" /\ Closed(key)) =>
                \A p \in LimitPrices, m \in RoundingModes :
                  CanExecute(order, p) =>
                    LET r == LimitFill(DB, id, order,
                                 portfolios[order.portfolio].cash_balance, p, m)
                    IN  /\ r.success
                        /\ r.db.positions[key] =
                              [quantity |-> order.quantity,
                               average_buy_price |-> p]

\* bought, sold whole and bought again at another price: the position is
\* carried at the price of the last purchase
C28_Witness ==
    /\ last.op = "execute_market_order"
    /\ Len(transactions) = 3
    /\ \A n \in 1..3 : transactions[n].status = "EXECUTED"
    /\ transactions[1].transaction_type = "BUY"
    /\ transactions[2].transaction_type = "SELL"
    /\ transactions[2].quantity = transactions[1].quantity
    /\ transactions[3].transaction_type = "BUY"
    /\ transactions[3].price # transactions[1].price
    /\ positions[<<"u1", "AAPL">>] =
          [quantity |-> transactions[3].quantity,
           average_buy_price |-> transactions[3].price]

\* ------------------------------------------------------------------- C29
\* the call that led to the next state was a successful SELL: it stored the
\* Transaction of a sale
Sold ==
    /\ ncalls' # ncalls
    /\ last'.op \in {"trade", "execute_market_order"}
    /\ last'.success
    /\ Len(transactions') = Len(transactions) + 1
    /\ transactions'[Len(transactions')].transaction_type = "SELL"

\* C29: every successful SELL of sub_qty shares at fill_price from a position
\* of average cost a realizes (fill_price - a) x sub_qty, which is added to
\* the total realized P&L of the portfolio's performance row; the count of
\* winning trades goes up by one exactly when that amount is > 0, the count of
\* losing trades exactly when it is < 0, and neither when it is 0.
C29_RealizedPnl ==
    [][Sold =>
         LET t == transactions'[Len(transactions')]
             u == t.portfolio
             a == positions[<<u, t.ticker>>].average_buy_price
             pnl == (t.price - a) * t.quantity
         IN  u \in DOMAIN performance =>
               /\ performance'[u].total_realized_pnl =
                     performance[u].total_realized_pnl + pnl
               /\ performance'[u].winning_trades =
                     performance[u].winning_trades + (IF pnl > 0 THEN 1 ELSE 0)
               /\ performance'[u].losing_trades =
                     performance[u].losing_trades + (IF pnl < 0 THEN 1 ELSE 0)]_vars


\* ------------------------------------------------------------------- C30
\* what the OPEN BUY limit orders of u hold in reserve, and what the EXECUTED
\* transactions of u on one side amount to
Reserved(u) ==
    SumOf({i \in 1..Len(orders) : /\ orders[i].portfolio = u
                                  /\ orders[i].status = "OPEN"
                                  /\ orders[i].side = "BUY"},
          [i \in 1..Len(orders) |-> orders[i].quantity * orders[i].limit_price])

Traded(u, side) ==
    SumOf({n \in 1..Len(transactions) :
               /\ transactions[n].portfolio = u
               /\ transactions[n].status = "EXECUTED"
               /\ transactions[n].transaction_type = side},
          [n \in 1..Len(transactions) |-> transactions[n].total_amount])

\* C30: in every state reached by market trades, placements, cancellations,
\* fill sweeps and expiry sweeps, the cash of each portfolio plus the
\* reservations of its OPEN BUY limit orders is the starting balance less the
\* amounts of its EXECUTED BUY transactions plus the amounts of its EXECUTED
\* SELL transactions: no cash is created or destroyed.
C30_MoneyConservation ==
    \A u \in DOMAIN portfolios :
        portfolios[u].cash_balance + Reserved(u) =
            INITIAL_BALANCE - Traded(u, "BUY") + Traded(u, "SELL")

\* ------------------------------------------------------------------- C26
\* C26: in every state, also while and after two handlers make the first
\* trades of one user or the first BUYs of one ticker at once, the store holds
\* at most one portfolio row per user and at most one position row per
\* portfolio and ticker.
C26_Uniqueness ==
    \A table \in DOMAIN store :
        \A r1, r2 \in store[table] : r1.key = r2.key => r1 = r2

\* two handlers raced for the position of one ticker: the insert of one was
\* refused and it is about to read the row of the other
C26_Witness ==
    \E w \in Workers :
        /\ workers[w].pc = "position_reget"
        /\ Cardinality(store.position) = 1
        /\ \E r \in store.position : r.by = "" /\ r.key = KeyOf(w, "position")

\* ------------------------------------------------------------------- C31
\* the shares of ticker that the EXECUTED transactions of u moved on one side
Shares(u, ticker, side) ==
    SumOf({n \in 1..Len(transactions) :
               /\ transactions[n].portfolio = u
               /\ transactions[n].ticker = ticker
               /\ transactions[n].status = "EXECUTED"
               /\ transactions[n].transaction_type = side},
          [n \in 1..Len(transactions) |-> transactions[n].quantity])

\* C31: in every state, for each portfolio and ticker, the quantity of the
\* position (0 when there is none) is the shares of its EXECUTED BUY
\* transactions for the ticker less the shares of its EXECUTED SELL
\* transactions for the ticker.
C31_ShareConservation ==
    \A u \in Users, t \in Tickers :
        Held(positions, u, t) = Shares(u, t, "BUY") - Shares(u, t, "SELL")

\* ------------------------------------------------------------------- C32
\* C32: a run of expire_old_orders that follows another run, with no OPEN
\* order having reached its expiration in between, changes no order and no
\* cash balance: the reservation of a BUY order is refunded by expiry at most
\* once, however often the sweep runs.
C32_ExpiryIdempotent ==
    [][(/\ ncalls' # ncalls
        /\ last.op = "expire_old_orders"
        /\ last'.op = "expire_old_orders"
        /\ \A i \in 1..Len(orders) :
              orders[i].status = "OPEN" => orders[i].expiration_date > now)
       => /\ orders' = orders
          /\ portfolios' = portfolios]_vars

\* ------------------------------------------------------------------- C33
\* what the user u has paid for, what u has been paid, and what is reserved
\* for the OPEN BUY orders of u, taken together with the cash of u
Worth(u) ==
    CashOf(portfolios, u) + Reserved(u) + Traded(u, "BUY") - Traded(u, "SELL")

\* C33: when cancel_limit_order, a sweep fill and expire_old_orders are
\* interleaved on the same limit order, exactly one of them takes effect: an
\* order leaves OPEN once, and FILLED, CANCELLED and EXPIRED are final; and
\* the reservation is released exactly once: as long as expire_old_orders has
\* refunded nothing, the cash, the open reservations and the net purchases of
\* a user add up to the initial balance whenever nothing is in progress.
C33_OneResolution ==
    [][/\ \A i \in 1..Len(orders) :
             orders'[i].status # orders[i].status => orders[i].status = "OPEN"
       /\ (/\ Quiet'
           /\ \A i \in 1..Len(orders') : orders'[i].status # "EXPIRED")
          => \A u \in Traders : Worth(u)' = INITIAL_BALANCE]_vars

\* ------------------------------------------------------------------- C34
Resolved(i) ==
    /\ i \in 1..Len(orders)
    /\ orders[i].status \in {"FILLED", "CANCELLED", "EXPIRED"}

\* C34: when time advances past the expiration of every order and
\* expire_old_orders is run whenever it has something to expire, every order
\* that is OPEN eventually is FILLED, CANCELLED or EXPIRED: no order stays
\* OPEN forever.
C34_EventuallyResolved ==
    \A i \in 1..MaxOrders :
        (i \in 1..Len(orders) /\ orders[i].status = "OPEN") ~> Resolved(i)

\* the expiry sweep has just resolved an order that nothing else had resolved
C34_Witness ==
    /\ last.op = "expire_old_orders"
    /\ now = MaxTime
    /\ \E i \in 1..Len(orders) : orders[i].status = "EXPIRED"
    /\ \A i \in 1..Len(orders) : Resolved(i)
====
